---------------------------- MODULE Spec2Model ----------------------------
(***************************************************************************)
(* Incremental Jira -> Delta sync (src/python/jira_deltatable.py).         *)
(*                                                                         *)
(* The module holds these specifications over one set of variables:       *)
(*   MetaSpec   the watermark store: get_sync_metadata and                 *)
(*              update_sync_metadata called in any order;                  *)
(*   GateSpec   the blacklist table, the set JiraHandler loads from it and *)
(*              the fetch-family operations of JiraHandler;                *)
(*   FetchSpec  the page loop of JiraPrimitives.fetch_issues, one request  *)
(*              and one response at a time (FetchFairSpec adds progress);  *)
(*   GetSpec    one JiraSession.get after another, attempt by attempt,     *)
(*              under the Retry configuration of the session;              *)
(*   FlattenSpec DataFrameHandler.flatten_json applied to a nested value;  *)
(*   TranslateSpec DataFrameHandler.translate_special_fields applied to a  *)
(*              row under a status mapping;                                *)
(*   ProcessSpec DataFrameHandler.process_issues applied to a list of      *)
(*              issues;                                                    *)
(*   UpsertSpec DeltaTableHandler.upsert_data called with any batch for    *)
(*              any pair;                                                  *)
(*   Spec       the sync loop of __main__ over (project, issue type)       *)
(*              pairs, pass after pass, with process crashes.              *)
(*   TrackerSpec the same loop while issues are updated on the tracker and *)
(*              the clock goes on during a pass.                           *)
(*                                                                         *)
(* Calls between the repository's own functions are bound by the meaning   *)
(* of the callee's parameters (several call sites pass argument lists of   *)
(* another length than the callee's signature). Library calls follow the   *)
(* library's contract. The projects of a pass are those the credentials    *)
(* file names (line 435), although JiraHandler.__init__ empties the list   *)
(* again (line 184) after it has loaded it.                                *)
(***************************************************************************)
EXTENDS Integers, Sequences, FiniteSets, TLC

VARIABLES
    now,                \* wall clock, in ticks
    metaExists,         \* the table jira_sync_metadata exists
    meta,               \* its rows, in write order
    call,               \* the last operation: its arguments, result and pre-state
    blExists,           \* the table blacklist_table exists
    blTable,            \* its entries, in write order
    instance_blacklist, \* JiraHandler.instance_blacklist
    issuetypes_by_project,      \* JiraHandler's cache of createmeta results
    jiradefaults_by_project,    \* JiraHandler's cache of default field sets
    result,             \* the issues the server holds for the query, in its order
    fpc,                \* fetch_issues: "idle", "request", "waiting", "returned"
    start_at,           \* fetch_issues: start_at
    issues_to_fetch,    \* fetch_issues: issues_to_fetch
    requests,           \* the first MaxReqLog requests sent, in order
    served,             \* every issue the server sent in a page, in order
    lastData,           \* the kind of the last response
    allFull,            \* every response so far was a full page
    shorts,             \* the short, non-empty pages the server sent
    srv,                \* the issues the tracker holds, per (project, issue type)
    tables,             \* the sink: the rows of every existing table, by table name
    pc,                 \* __main__: position in the sync loop
    projects,           \* __main__: projects still to visit in this pass
    project,            \* __main__: project (instance and key)
    issuetype_fields,   \* __main__: issuetype_fields
    issue_types,        \* __main__: issue types still to visit for the project
    issue_type,         \* __main__: issue_type
    last_sync_time,     \* __main__: last_sync_time
    issues,             \* __main__: issues
    issues_df,          \* __main__: issues_df
    pass,               \* what this pass has done so far, per pair
    session,            \* JiraSession.get: the GET under way and its retry budget
    flat,               \* flatten_json: the argument y and the dict out
    xlate,              \* translate_special_fields: the row, the status mapping, the result
    proc                \* process_issues: the issues and the rows made of them

metaVars == <<metaExists, meta>>
gateVars == <<blExists, blTable, instance_blacklist, issuetypes_by_project,
              jiradefaults_by_project>>
fetchVars == <<result, fpc, start_at, issues_to_fetch, requests, served, lastData,
               allFull, shorts>>
syncVars == <<srv, tables, pc, projects, project, issuetype_fields, issue_types,
              issue_type, last_sync_time, issues, issues_df, pass>>
vars == <<now, metaExists, meta, call, blExists, blTable, instance_blacklist,
          issuetypes_by_project, jiradefaults_by_project,
          result, fpc, start_at, issues_to_fetch, requests, served, lastData,
          allFull, shorts,
          srv, tables, pc, projects, project, issuetype_fields, issue_types,
          issue_type, last_sync_time, issues, issues_df, pass, session,
          flat, xlate, proc>>

(***************************************************************************)
(* Bounds of the model.                                                    *)
(***************************************************************************)
MaxTime == 3
TicksPerMinute == 2
MaxBlacklist == 2
MaxTotal == 250
MaxReqLog == 4
MaxShort == 1
MaxIssues == 2
MaxBatch == 2
MaxCalls == 3
MaxInner == 3
MaxOuter == 2

\* project keys and issue type names, as sequences of characters
P1 == <<"P", "1">>
P2 == <<"P", "2">>
Task == <<"T", "a", "s", "k">>
Bug == <<"B", "u", "g">>
ProjectKeys == {P1, P2}
IssueTypes == {Task, Bug}
Pairs == ProjectKeys \X IssueTypes

NoCall == [op |-> "none"]
\* flatten_json not called: y is None, out is empty
FlatIdle ==
    [state |-> "idle",
     y |-> [k |-> "scalar", t |-> "NoneType", s |-> <<"N", "o", "n", "e">>,
            items |-> <<>>],
     out |-> <<>>]
\* translate_special_fields not called
XlateIdle == [state |-> "idle", issue |-> <<>>, mapping |-> <<>>, out |-> <<>>]
\* process_issues not called
ProcIdle == [state |-> "idle", issues |-> <<>>, none |-> FALSE, rows |-> <<>>]
\* no GET under way
SessionIdle == [state |-> "idle", total |-> 0, attempts |-> 0, log |-> <<>>,
                ret |-> "none yet"]

(***************************************************************************)
(* Time. strftime("%Y-%m-%d %H:%M") keeps the minute and drops the rest;   *)
(* a formatted time is the number of whole minutes since 1970-01-01 00:00. *)
(***************************************************************************)
Epoch == 0
strftime(t) == t \div TicksPerMinute
Times == 0..MaxTime
InitClock == TicksPerMinute

(***************************************************************************)
(* The watermark store (DeltaTableHandler, table jira_sync_metadata).      *)
(***************************************************************************)
MetaRow(P, T, t) == [project_key |-> P, issue_type |-> T, last_sync_time |-> t]

\* the row positions the filter of get_sync_metadata selects
MetaFilter(rows, P, T) ==
    {i \in 1..Len(rows) : rows[i].project_key = P /\ rows[i].issue_type = T}

\* the store as get_sync_metadata leaves it
get_sync_metadata_NoCreate(exists, rows, P, T) == rows
get_sync_metadata_rows(exists, rows, P, T) ==
    IF exists
    THEN rows                                   \* read succeeded: no write
    ELSE Append(rows, MetaRow(P, T, Epoch))     \* except branch: mode append

\* the values get_sync_metadata may return
get_sync_metadata_ret(exists, rows, P, T) ==
    IF exists /\ MetaFilter(rows, P, T) # {}
    THEN {rows[i].last_sync_time : i \in MetaFilter(rows, P, T)}
    ELSE {Epoch}

get_sync_metadata(P, T) ==
    /\ \E r \in get_sync_metadata_ret(metaExists, meta, P, T) :
          call' = [op |-> "get_sync_metadata", project_key |-> P, issue_type |-> T,
                   ret |-> r, raised |-> FALSE,
                   existed |-> metaExists, before |-> meta]
    /\ meta' = get_sync_metadata_rows(metaExists, meta, P, T)
    /\ metaExists' = TRUE
    /\ UNCHANGED <<now, xlate, proc, flat, session, gateVars, fetchVars, syncVars>>

\* DeltaTable.merge(source, condition) is called with the source alone
\* (line 959): the call raises TypeError before anything is written, and
\* TypeError is not the AnalysisException the handler catches.
update_sync_metadata_raises(exists) == exists

\* the store as update_sync_metadata leaves it
update_sync_metadata_Append(exists, rows, P, T, t) == Append(rows, MetaRow(P, T, t))
update_sync_metadata_rows(exists, rows, P, T, t) ==
    IF exists
    THEN rows                          \* merge raised: nothing written
    ELSE <<MetaRow(P, T, t)>>          \* no table: mode overwrite creates it

update_sync_metadata(P, T, t) ==
    /\ call' = [op |-> "update_sync_metadata", project_key |-> P, issue_type |-> T,
                new_sync_time |-> t, raised |-> update_sync_metadata_raises(metaExists),
                existed |-> metaExists, before |-> meta]
    /\ meta' = update_sync_metadata_rows(metaExists, meta, P, T, t)
    /\ metaExists' = TRUE
    /\ UNCHANGED <<now, xlate, proc, flat, session, gateVars, fetchVars, syncVars>>

\* no table yet, no handler built yet
MetaStart == metaExists = FALSE /\ meta = <<>>
GateStart ==
    /\ blExists = FALSE
    /\ blTable = <<>>
    /\ instance_blacklist = {}
    /\ issuetypes_by_project = [p \in ProjectKeys |-> "absent"]
    /\ jiradefaults_by_project = [p \in ProjectKeys |-> "absent"]

\* no sync pass under way, nothing on the tracker, no sink table
SyncIdle ==
    /\ srv = <<>>
    /\ tables = <<>>
    /\ pc = "idle"
    /\ projects = <<>>
    /\ project = "none"
    /\ issuetype_fields = [none |-> TRUE, names |-> {}]
    /\ issue_types = <<>>
    /\ issue_type = "none"
    /\ last_sync_time = Epoch
    /\ issues = <<>>
    /\ issues_df = [none |-> TRUE, rows |-> <<>>]
    /\ pass = "none"

\* no fetch under way
FetchIdle ==
    /\ result = <<>>
    /\ fpc = "idle"
    /\ start_at = 0
    /\ issues_to_fetch = <<>>
    /\ requests = <<>>
    /\ served = <<>>
    /\ lastData = "none yet"
    /\ allFull = TRUE
    /\ shorts = 0

MetaInit ==
    /\ now = InitClock
    /\ xlate = XlateIdle
    /\ proc = ProcIdle
    /\ flat = FlatIdle
    /\ session = SessionIdle
    /\ call = NoCall
    /\ MetaStart
    /\ GateStart
    /\ FetchIdle
    /\ SyncIdle

MetaNext ==
    \/ \E P \in ProjectKeys, T \in IssueTypes : get_sync_metadata(P, T)
    \/ \E P \in ProjectKeys, T \in IssueTypes, t \in 1..MaxTime :
          update_sync_metadata(P, T, t)

MetaSpec == MetaInit /\ [][MetaNext]_vars


(***************************************************************************)
(* Claims on the watermark store, checked under MetaSpec.                  *)
(***************************************************************************)
IsGet == call.op = "get_sync_metadata"
IsUpdate == call.op = "update_sync_metadata"
\* the pair of the last call had no entry when the call started
NoEntryBefore == MetaFilter(call.before, call.project_key, call.issue_type) = {}
DefaultRowPersisted ==
    /\ metaExists
    /\ \E i \in 1..Len(meta) :
          meta[i] = MetaRow(call.project_key, call.issue_type, Epoch)

C9_AtMostOneRowPerPair ==
    \A P \in ProjectKeys, T \in IssueTypes : Cardinality(MetaFilter(meta, P, T)) <= 1

\* C9 witness: an update for one pair ran on a table holding the row of
\* another pair.
C9_Witness ==
    /\ IsUpdate /\ call.existed
    /\ Len(meta) > 0
    /\ <<meta[1].project_key, meta[1].issue_type>> # <<call.project_key, call.issue_type>>

\* C10: update_sync_metadata(P, T, t) is an upsert by key: afterwards the
\* store answers t for (P, T), and every other row is still there, unchanged.
C10_UpsertByKey ==
    IsUpdate =>
        /\ ~call.raised
        /\ get_sync_metadata_ret(metaExists, meta, call.project_key, call.issue_type)
              = {call.new_sync_time}
        /\ \A i \in 1..Len(call.before) :
              (<<call.before[i].project_key, call.before[i].issue_type>>
                  # <<call.project_key, call.issue_type>>)
              => \E j \in 1..Len(meta) : meta[j] = call.before[i]


(***************************************************************************)
(* The blacklist gate (DeltaTableHandler's blacklist table, JiraHandler).   *)
(* An instance name is a sequence of characters.                           *)
(***************************************************************************)
InstanceNames == {<<"a", "b">>, <<"A", "b">>, <<"c">>}
\* the project the gated operations are called for
GateProjects == {P1}

\* str.lower(), character by character
LowerChar(c) ==
    CASE c = "A" -> "a"
      [] c = "B" -> "b"
      [] c = "C" -> "c"
      [] c = "D" -> "d"
      [] c = "E" -> "e"
      [] c = "F" -> "f"
      [] c = "G" -> "g"
      [] c = "H" -> "h"
      [] c = "I" -> "i"
      [] c = "J" -> "j"
      [] c = "K" -> "k"
      [] c = "L" -> "l"
      [] c = "M" -> "m"
      [] c = "N" -> "n"
      [] c = "O" -> "o"
      [] c = "P" -> "p"
      [] c = "Q" -> "q"
      [] c = "R" -> "r"
      [] c = "S" -> "s"
      [] c = "T" -> "t"
      [] c = "U" -> "u"
      [] c = "V" -> "v"
      [] c = "W" -> "w"
      [] c = "X" -> "x"
      [] c = "Y" -> "y"
      [] c = "Z" -> "z"
      [] OTHER -> c
lower(s) == [i \in DOMAIN s |-> LowerChar(s[i])]
\* s.replace(" ", "_")
replace_space(s) == [i \in DOMAIN s |-> IF s[i] = " " THEN "_" ELSE s[i]]

BlacklistEntry(i, t) ==
    [instance |-> i, reason |-> "Authentication failure", blacklisted_at |-> t]

\* DeltaTableHandler.get_blacklist: the instance column as persisted, or the
\* empty set when the table cannot be read
get_blacklist(exists, table) ==
    IF exists THEN {table[i].instance : i \in 1..Len(table)} ELSE {}

\* the test every gated operation of JiraHandler makes
IsBlacklisted(instance, loaded) == lower(instance) \in loaded

\* DeltaTableHandler.update_blacklist: append one entry; saveAsTable creates
\* the table when it is missing
update_blacklist(new_instance) ==
    /\ Len(blTable) < MaxBlacklist
    /\ blTable' = Append(blTable, BlacklistEntry(new_instance, now))
    /\ blExists' = TRUE
    /\ call' = [op |-> "update_blacklist", instance |-> new_instance]
    /\ UNCHANGED <<now, xlate, proc, flat, session, metaVars, fetchVars, syncVars, instance_blacklist, issuetypes_by_project,
                   jiradefaults_by_project>>

\* DeltaTableHandler.drop_blacklist_table, run by __main__ in testing_mode
drop_blacklist_table ==
    /\ blExists
    /\ blExists' = FALSE
    /\ blTable' = <<>>
    /\ call' = [op |-> "drop_blacklist_table"]
    /\ UNCHANGED <<now, xlate, proc, flat, session, metaVars, fetchVars, syncVars, instance_blacklist, issuetypes_by_project,
                   jiradefaults_by_project>>

\* JiraHandler.__init__: a new handler loads the blacklist and starts with
\* empty caches
JiraHandler_init ==
    /\ instance_blacklist' = get_blacklist(blExists, blTable)
    /\ issuetypes_by_project' = [p \in ProjectKeys |-> "absent"]
    /\ jiradefaults_by_project' = [p \in ProjectKeys |-> "absent"]
    /\ call' = [op |-> "JiraHandler.__init__"]
    /\ UNCHANGED <<now, xlate, proc, flat, session, metaVars, fetchVars, syncVars, blExists, blTable>>

\* JiraHandler.connect_instance: the default fields are requested (line 196),
\* then the name key_for_project, which is neither a local nor a global, is
\* evaluated (line 199): NameError, before the blacklist is read again
connect_instance(instance) ==
    /\ call' = [op |-> "connect_instance", instance |-> instance,
                network |-> TRUE, raised |-> TRUE]
    /\ UNCHANGED <<now, xlate, proc, flat, session, metaVars, fetchVars, syncVars,
                   gateVars>>

GatedCall(op, instance, pkey, ret, network, raised) ==
    [op |-> op, instance |-> instance, project_key |-> pkey, ret |-> ret,
     network |-> network, raised |-> raised,
     blacklisted |-> IsBlacklisted(instance, instance_blacklist),
     loaded |-> instance_blacklist]

\* JiraHandler.get_issue_types -> JiraPrimitives.fetch_issue_types
get_issue_types(instance, pkey, reply) ==
    /\ call' = IF IsBlacklisted(instance, instance_blacklist)
               THEN GatedCall("get_issue_types", instance, pkey, "empty", FALSE, FALSE)
               ELSE GatedCall("get_issue_types", instance, pkey,
                              IF reply = "data" THEN "data" ELSE "empty", TRUE, FALSE)
    /\ UNCHANGED <<now, xlate, proc, flat, session, metaVars, fetchVars, syncVars, gateVars>>

\* JiraHandler.fetch_issuetype_fields -> JiraPrimitives.fetch_issuetype_fields
fetch_issuetype_fields(instance, pkey, reply) ==
    IF IsBlacklisted(instance, instance_blacklist)
    THEN /\ call' = GatedCall("fetch_issuetype_fields", instance, pkey, "None", FALSE, FALSE)
         /\ UNCHANGED <<now, xlate, proc, flat, session, metaVars, fetchVars, syncVars, gateVars>>
    ELSE IF issuetypes_by_project[pkey] # "absent"
    THEN /\ call' = GatedCall("fetch_issuetype_fields", instance, pkey,
                              issuetypes_by_project[pkey], FALSE, FALSE)
         /\ UNCHANGED <<now, xlate, proc, flat, session, metaVars, fetchVars, syncVars, gateVars>>
    ELSE LET data == IF reply = "data" THEN "data" ELSE "None" IN
         /\ call' = GatedCall("fetch_issuetype_fields", instance, pkey, data, TRUE, FALSE)
         /\ issuetypes_by_project' = [issuetypes_by_project EXCEPT ![pkey] = data]
         /\ UNCHANGED <<now, xlate, proc, flat, session, metaVars, fetchVars, syncVars, blExists, blTable, instance_blacklist,
                        jiradefaults_by_project>>

\* JiraHandler.fetch_default_fields -> JiraPrimitives.fetch_default_fields,
\* extract_default_fields (which iterates the reply: a missing reply raises)
fetch_default_fields(instance, pkey, reply) ==
    IF IsBlacklisted(instance, instance_blacklist)
    THEN /\ call' = GatedCall("fetch_default_fields", instance, pkey, "None", FALSE, FALSE)
         /\ UNCHANGED <<now, xlate, proc, flat, session, metaVars, fetchVars, syncVars, gateVars>>
    ELSE IF jiradefaults_by_project[pkey] # "absent"
    THEN /\ call' = GatedCall("fetch_default_fields", instance, pkey,
                              jiradefaults_by_project[pkey], FALSE, FALSE)
         /\ UNCHANGED <<now, xlate, proc, flat, session, metaVars, fetchVars, syncVars, gateVars>>
    ELSE IF reply = "data"
    THEN /\ call' = GatedCall("fetch_default_fields", instance, pkey, "data", TRUE, FALSE)
         /\ jiradefaults_by_project' = [jiradefaults_by_project EXCEPT ![pkey] = "data"]
         /\ UNCHANGED <<now, xlate, proc, flat, session, metaVars, fetchVars, syncVars, blExists, blTable, instance_blacklist,
                        issuetypes_by_project>>
    ELSE /\ call' = GatedCall("fetch_default_fields", instance, pkey, "None", TRUE, TRUE)
         /\ UNCHANGED <<now, xlate, proc, flat, session, metaVars, fetchVars, syncVars, gateVars>>

\* JiraHandler.fetch_issues -> JiraPrimitives.fetch_issues: the search is
\* sent whatever instance_blacklist holds
JiraHandler_fetch_issues(instance, pkey, reply) ==
    /\ call' = GatedCall("fetch_issues", instance, pkey,
                         IF reply = "data" THEN "data" ELSE "empty", TRUE, FALSE)
    /\ UNCHANGED <<now, xlate, proc, flat, session, metaVars, fetchVars, syncVars, gateVars>>

Replies == {"data", "none"}

GateInit ==
    /\ now = InitClock
    /\ xlate = XlateIdle
    /\ proc = ProcIdle
    /\ flat = FlatIdle
    /\ session = SessionIdle
    /\ call = NoCall
    /\ MetaStart
    /\ GateStart
    /\ FetchIdle
    /\ SyncIdle

GateNext ==
    \/ \E i \in InstanceNames : update_blacklist(i)
    \/ drop_blacklist_table
    \/ JiraHandler_init
    \/ \E i \in InstanceNames : connect_instance(i)
    \/ \E i \in InstanceNames, p \in GateProjects, r \in Replies : get_issue_types(i, p, r)
    \/ \E i \in InstanceNames, p \in GateProjects, r \in Replies : fetch_issuetype_fields(i, p, r)
    \/ \E i \in InstanceNames, p \in GateProjects, r \in Replies : fetch_default_fields(i, p, r)
    \/ \E i \in InstanceNames, p \in GateProjects, r \in Replies :
          JiraHandler_fetch_issues(i, p, r)

GateSpec == GateInit /\ [][GateNext]_vars

(***************************************************************************)
(* Claims on the gate, checked under GateSpec.                             *)
(***************************************************************************)
FetchFamily == {"get_issue_types", "fetch_issuetype_fields", "fetch_default_fields",
                "fetch_issues"}

\* C6: for a blacklisted instance every fetch-family operation of JiraHandler
\* returns an empty or None result, sends no request and raises nothing.
C6_BlacklistedNeverFetches ==
    (call.op \in FetchFamily /\ call.blacklisted) =>
        /\ call.ret \in {"empty", "None"}
        /\ ~call.network
        /\ ~call.raised

\* C7: the gate is case-insensitive on the instance name: an operation on an
\* instance whose name equals a loaded blacklist entry up to letter case is
\* answered as blocked (no request, empty or None result).
GatedOps == {"get_issue_types", "fetch_issuetype_fields", "fetch_default_fields"}
C7_CaseInsensitiveMembership ==
    (/\ call.op \in GatedOps
     /\ \E e \in call.loaded : lower(e) = lower(call.instance))
    => (call.blacklisted /\ ~call.network)

\* C29: the persisted blacklist is append-only: no step removes or alters an
\* entry or the table, and a step of update_blacklist(i) appends the one
\* entry (i, "Authentication failure", timestamp) to the entries there were,
\* creating the table when it is missing.
C29_BlacklistAppendOnly ==
    [][/\ blExists => blExists'
       /\ \A k \in 1..Len(blTable) :
             k <= Len(blTable') /\ blTable'[k] = blTable[k]
       /\ (call'.op = "update_blacklist" /\ blTable' # blTable) =>
             /\ blTable' = Append(blTable, BlacklistEntry(call'.instance, now))
             /\ blExists']_vars

\* C30: connect_instance reloads the set the gate uses: when it has run, the
\* set is the instance column of the persisted blacklist, so that an
\* instance persisted before it is blocked after it.
C30_ReloadOnConnect ==
    call.op = "connect_instance" =>
        instance_blacklist = get_blacklist(blExists, blTable)


(***************************************************************************)
(* The page loop of JiraPrimitives.fetch_issues. The server holds the      *)
(* issues of the query in its order and answers a request with a page, a   *)
(* body without the key "issues", or nothing (JiraSession.get returned     *)
(* None).                                                                  *)
(***************************************************************************)
maxResults == 100

Issue(i, u) == [id |-> i, updated |-> u]
Min(a, b) == IF a <= b THEN a ELSE b

\* the total the server reports
total == Len(result)
\* the page the server holds for a request
FullPage(startAt, limit) == SubSeq(result, startAt + 1, Min(startAt + limit, total))
Page(page) == [kind |-> "page", issues |-> page, total |-> total]
NoPayload == [kind |-> "none"]
NoIssuesKey == [kind |-> "nokey"]

\* the answers of the server to the request in flight
ServerResponses ==
    LET full == FullPage(start_at, maxResults) IN
    {Page(full), NoPayload, NoIssuesKey}
    \cup {Page(<<>>)}
    \cup {Page(SubSeq(full, 1, n)) : n \in {k \in {1} : k < Len(full) /\ shorts < MaxShort}}

\* line 621: not data or "issues" not in data
NoMoreData(data) == data.kind # "page"
\* line 622: what is returned then
ReturnedOnNoData_Nothing(collected) == <<>>
ReturnedOnNoData(collected) == collected
\* line 625
LoopExit_Strict(s, reported) == s > reported
LoopExit(s, reported) == s >= reported

FetchCall(ret) == [op |-> "JiraPrimitives.fetch_issues", ret |-> ret, raised |-> FALSE]

\* lines 613-620: the request is sent
SendRequest ==
    /\ fpc = "request"
    /\ fpc' = "waiting"
    /\ requests' = IF Len(requests) < MaxReqLog
                   THEN Append(requests, [startAt |-> start_at, maxResults |-> maxResults])
                   ELSE requests
    /\ UNCHANGED <<result, start_at, issues_to_fetch, served, lastData, allFull, shorts>>

\* lines 620-627: the response arrives and the loop body runs
ReceiveResponse(data) ==
    /\ fpc = "waiting"
    /\ lastData' = data.kind
    /\ allFull' = (allFull /\ data = Page(FullPage(start_at, maxResults)))
    /\ IF NoMoreData(data)
       THEN /\ fpc' = "returned"
            /\ call' = FetchCall(ReturnedOnNoData(issues_to_fetch))
            /\ UNCHANGED <<start_at, issues_to_fetch, served, shorts>>
       ELSE /\ issues_to_fetch' = issues_to_fetch \o data.issues
            /\ start_at' = start_at + Len(data.issues)
            /\ served' = served \o data.issues
            /\ shorts' = IF data.issues # <<>> /\ data # Page(FullPage(start_at, maxResults))
                         THEN shorts + 1 ELSE shorts
            /\ IF LoopExit(start_at', data.total)
               THEN fpc' = "returned" /\ call' = FetchCall(issues_to_fetch')
               ELSE fpc' = "request" /\ UNCHANGED call
    /\ UNCHANGED <<result, requests>>

FetchStart ==
    /\ fpc = "request"
    /\ start_at = 0
    /\ issues_to_fetch = <<>>
    /\ requests = <<>>
    /\ served = <<>>
    /\ lastData = "none yet"
    /\ allFull = TRUE
    /\ shorts = 0

FetchInit ==
    /\ now = InitClock
    /\ xlate = XlateIdle
    /\ proc = ProcIdle
    /\ flat = FlatIdle
    /\ session = SessionIdle
    /\ call = NoCall
    /\ MetaStart
    /\ GateStart
    /\ \E T \in 0..MaxTotal : result = [i \in 1..T |-> Issue(i, 0)]
    /\ FetchStart
    /\ SyncIdle

FetchSend == SendRequest /\ UNCHANGED <<now, xlate, proc, flat, session, call, metaVars, gateVars, syncVars>>
FetchReceive ==
    \E data \in ServerResponses :
        /\ ReceiveResponse(data)
        /\ UNCHANGED <<now, xlate, proc, flat, session, metaVars, gateVars, syncVars>>

FetchNext == FetchSend \/ FetchReceive

FetchSpec == FetchInit /\ [][FetchNext]_vars
\* the loop keeps running and every request is answered
FetchFairSpec == FetchSpec /\ WF_vars(FetchSend) /\ WF_vars(FetchReceive)

(***************************************************************************)
(* Claims on the page loop, checked under FetchSpec and FetchFairSpec.     *)
(***************************************************************************)
FetchReturned == fpc = "returned" /\ call.op = "JiraPrimitives.fetch_issues"
\* ceil(T/100), and one request when T = 0
PagesOf(T) == IF T = 0 THEN 1 ELSE (T + maxResults - 1) \div maxResults

\* C3: against a server that reports total = T and sends full pages,
\* fetch_issues sends exactly ceil(T/100) requests (one when T = 0) with
\* startAt = 0, 100, 200, ... and maxResults = 100, and returns the T issues,
\* each once, in page order.
C3_FullPagesWalk ==
    /\ allFull =>
        /\ Len(requests) <= PagesOf(total)
        /\ \A i \in 1..Len(requests) :
              requests[i] = [startAt |-> maxResults * (i - 1), maxResults |-> maxResults]
    /\ (FetchReturned /\ allFull) =>
        /\ Len(requests) = PagesOf(total)
        /\ call.ret = result
        /\ \A i, j \in 1..Len(call.ret) : call.ret[i].id = call.ret[j].id => i = j

\* C3 witness: 250 issues fetched with three requests.
C3_Witness ==
    /\ FetchReturned /\ allFull
    /\ total = 250
    /\ Len(requests) = 3
    /\ Len(call.ret) = 250

\* C4: fetch_issues returns for every sequence of server responses.
C4_FetchTerminates == <>(fpc = "returned")

\* C5: when a request yields no payload after k >= 0 pages were collected,
\* fetch_issues raises nothing and returns exactly the issues of those pages.
C5_PartialResultOnFailure ==
    (FetchReturned /\ lastData = "none") =>
        /\ ~call.raised
        /\ call.ret = served

\* C5 witness: the failing request came after a page had been collected, with
\* issues still to fetch.
C5_Witness ==
    /\ FetchReturned /\ lastData = "none"
    /\ Len(served) > 0
    /\ Len(served) < total

(***************************************************************************)
(* JiraSession.get (lines 475-483) over the session of _create_session     *)
(* (lines 460-467): the adapter sends the request and, by the contract of  *)
(* urllib3's Retry, sends it again while Retry allows it.                   *)
(***************************************************************************)
\* Retry(total=5, ...): the number of retries allowed
RetryTotal == 5
status_forcelist == {500, 502, 503, 504}
\* the statuses Retry retries when the response has a Retry-After header
RETRY_AFTER_STATUS_CODES == {413, 429, 503}
ConnectionError == 0
\* what an attempt can come to: no response, or a status
Statuses == {ConnectionError, 200, 404, 429, 500, 503}

\* Retry.is_retry, and a connection error, which Retry always counts
is_retry(total_left, status, has_retry_after) ==
    \/ status = ConnectionError
    \/ status \in status_forcelist
    \/ /\ total_left # 0
       /\ has_retry_after
       /\ status \in RETRY_AFTER_STATUS_CODES

\* Retry.increment raises MaxRetryError when the count it has left is
\* below zero after this failure
is_exhausted(total_left) == total_left < 0

\* line 477: self.session.get is entered with a fresh Retry
GetStart ==
    /\ session.state \in {"idle", "returned"}
    /\ session' = [state |-> "sending", total |-> RetryTotal, attempts |-> 0,
                   log |-> <<>>, ret |-> "none yet"]
    /\ UNCHANGED <<now, xlate, proc, flat, call, metaVars, gateVars, fetchVars, syncVars>>

\* one request on the wire and what the adapter and lines 478-483 make of
\* its outcome
GetAttempt(status, has_retry_after) ==
    /\ session.state = "sending"
    /\ LET sent == [session EXCEPT !.attempts = @ + 1, !.log = Append(@, status)]
       IN  IF is_retry(session.total, status, has_retry_after)
           THEN IF is_exhausted(session.total - 1)
                THEN \* RetryError or ConnectionError: a RequestException
                     session' = [sent EXCEPT !.state = "returned", !.ret = "None",
                                             !.total = @ - 1]
                ELSE session' = [sent EXCEPT !.total = @ - 1]
           ELSE IF status = 200
                THEN session' = [sent EXCEPT !.state = "returned", !.ret = "json"]
                ELSE \* raise_for_status: HTTPError, a RequestException
                     session' = [sent EXCEPT !.state = "returned", !.ret = "None"]
    /\ UNCHANGED <<now, xlate, proc, flat, call, metaVars, gateVars, fetchVars, syncVars>>

GetInit == MetaInit

GetNext ==
    \/ GetStart
    \/ \E status \in Statuses, has_retry_after \in BOOLEAN :
          GetAttempt(status, has_retry_after)

GetSpec == GetInit /\ [][GetNext]_vars

\* C17: a GET is attempted at most 5 times; a status that is not 500, 502,
\* 503 or 504 is never followed by another attempt; and a GET that did not
\* end on status 200 returns None.
C17_RetryBudget ==
    /\ session.attempts <= 5
    /\ \A i \in 1..Len(session.log) - 1 :
          session.log[i] = ConnectionError \/ session.log[i] \in status_forcelist
    /\ (session.state = "returned" /\ session.log[Len(session.log)] # 200) =>
          session.ret = "None"

(***************************************************************************)
(* DataFrameHandler.flatten_json (lines 761-780). A JSON value is a scalar *)
(* (with its type and what str() makes of it), a dict or a list; the       *)
(* members of a dict and the elements of a list are kept in order. The     *)
(* dict out is the sequence of its entries in insertion order.             *)
(***************************************************************************)
Member(key, val) == [key |-> key, val |-> val]
Scalar(t, s) == [k |-> "scalar", t |-> t, s |-> s, items |-> <<>>]
Dict(members) == [k |-> "dict", t |-> "", s |-> <<>>, items |-> members]
List(elems) ==
    [k |-> "list", t |-> "", s |-> <<>>,
     items |-> [i \in 1..Len(elems) |-> Member(<<>>, elems[i])]]
Str(s) == Scalar("str", s)

\* the scalars of the inputs: 1, 2 and None
Scalars == {Scalar("int", <<"1">>), Scalar("int", <<"2">>),
            Scalar("NoneType", <<"N", "o", "n", "e">>)}
KeyA == <<"a">>
KeyB == <<"b">>
\* the key lists of the dicts of the inputs
KeyLists == {<<>>, <<KeyA>>, <<KeyB>>, <<KeyA, KeyB>>}
ListsOf(V, n) == {List(e) : e \in UNION {[1..m -> V] : m \in 0..n}}
DictsOf(V) ==
    UNION {{Dict([i \in 1..Len(ks) |-> Member(ks[i], vs[i])]) :
               vs \in [1..Len(ks) -> V]} : ks \in KeyLists}
\* the inputs: values nested up to four deep, with lists of scalars of at
\* most MaxInner elements and other lists of at most MaxOuter elements
Small == Scalars \cup ListsOf(Scalars, 1) \cup DictsOf(Scalars)
Level1 == Scalars \cup ListsOf(Scalars, MaxInner) \cup DictsOf(Scalars)
Level2 ==
    Level1 \cup ListsOf(Small, MaxOuter) \cup DictsOf(Small)
           \cup {Dict(<<Member(key, v)>>) : key \in {KeyA, KeyB}, v \in Level1}
FlattenInputs == Level2 \cup {Dict(<<Member(KeyA, v)>>) : v \in Level2}

\* str(i) of a list index
Digits == <<"0", "1", "2", "3", "4", "5", "6", "7", "8", "9">>
str_int(i) == <<Digits[i + 1]>>

\* out[key] = val
DictSet(out, key, val) ==
    IF \E i \in 1..Len(out) : out[i].key = key
    THEN [i \in 1..Len(out) |-> IF out[i].key = key THEN Member(key, val) ELSE out[i]]
    ELSE Append(out, Member(key, val))

\* ",".join(str(elem) for elem in x), from element i on
RECURSIVE join_Semicolon(_, _)
join_Semicolon(items, i) ==
    IF i > Len(items) THEN <<>>
    ELSE IF i = Len(items) THEN items[i].val.s
    ELSE items[i].val.s \o <<";">> \o join_Semicolon(items, i + 1)
RECURSIVE join(_, _)
join(items, i) ==
    IF i > Len(items) THEN <<>>
    ELSE IF i = Len(items) THEN items[i].val.s
    ELSE items[i].val.s \o <<",">> \o join(items, i + 1)

\* name[:-1]
StripLast(name) == SubSeq(name, 1, Len(name) - 1)
\* isinstance(elem, (str, int, float, bool, type(None))) for every elem
AllScalars(x) == \A i \in 1..Len(x.items) : x.items[i].val.k = "scalar"

\* the inner function flatten(x, name), as the dict out it leaves
RECURSIVE flatten(_, _, _)
RECURSIVE flatten_each(_, _, _, _, _)
flatten(out, x, name) ==
    IF x.k = "dict"
    THEN flatten_each(out, x.items, 1, name, FALSE)
    ELSE IF x.k = "list"
    THEN IF AllScalars(x)
         THEN DictSet(out, StripLast(name), Str(join(x.items, 1)))
         ELSE flatten_each(out, x.items, 1, name, TRUE)
    ELSE DictSet(out, StripLast(name), x)
\* the two for loops: the members of a dict by key, the elements of a list
\* by index
flatten_each(out, items, i, name, by_index) ==
    IF i > Len(items)
    THEN out
    ELSE flatten_each(
             flatten(out, items[i].val,
                     name \o (IF by_index THEN str_int(i - 1) ELSE items[i].key)
                          \o <<".">>),
             items, i + 1, name, by_index)

\* flatten_json(y)
flatten_json ==
    /\ flat.state = "called"
    /\ flat' = [flat EXCEPT !.state = "returned", !.out = flatten(<<>>, flat.y, <<>>)]
    /\ UNCHANGED <<now, xlate, proc, session, call, metaVars, gateVars, fetchVars,
                   syncVars>>

FlattenInit ==
    /\ now = InitClock
    /\ xlate = XlateIdle
    /\ proc = ProcIdle
    /\ session = SessionIdle
    /\ \E y \in FlattenInputs : flat = [state |-> "called", y |-> y, out |-> <<>>]
    /\ call = NoCall
    /\ MetaStart
    /\ GateStart
    /\ FetchIdle
    /\ SyncIdle

FlattenNext == flatten_json

FlattenSpec == FlattenInit /\ [][FlattenNext]_vars

(***************************************************************************)
(* DataFrameHandler.translate_special_fields (lines 668-759). A row is the *)
(* sequence of its entries in insertion order; the values are JSON values  *)
(* as above. The status mapping of the project is the sequence of its      *)
(* entries (status id, name) in insertion order; a project that has none   *)
(* gets the empty mapping (lines 672-673).                                 *)
(***************************************************************************)
MaxSprints == 2
MaxSegments == 2

None == Scalar("NoneType", <<"N", "o", "n", "e">>)
Bool(b) ==
    Scalar("bool", IF b THEN <<"T", "r", "u", "e">> ELSE <<"F", "a", "l", "s", "e">>)
\* d.get(key)
get(d, key) ==
    IF \E i \in 1..Len(d.items) : d.items[i].key = key
    THEN d.items[CHOOSE i \in 1..Len(d.items) : d.items[i].key = key].val
    ELSE None
\* bool(value)
truthy(value) ==
    IF value.k = "scalar"
    THEN value # None /\ value.s # <<>> /\ value # Bool(FALSE)
    ELSE Len(value.items) > 0

\* the names of the fields the function tells apart
Flagged == <<"F", "l", "a", "g", "g", "e", "d">>
Labels == <<"L", "a", "b", "e", "l", "s">>
Sprint == <<"S", "p", "r", "i", "n", "t">>
TimeInStatus ==
    <<"[", "C", "H", "A", "R", "T", "]", " ", "T", "i", "m", "e", " ", "i",
      "n", " ", "S", "t", "a", "t", "u", "s">>
IssueType == <<"I", "s", "s", "u", "e", " ", "T", "y", "p", "e">>
Summary == <<"s", "u", "m", "m", "a", "r", "y">>
\* lines 633-651; the letter Sigma is one character
special_fields ==
    {Flagged,
     <<"L", "i", "n", "k", "e", "d", " ", "I", "s", "s", "u", "e", "s">>,
     Labels,
     <<"L", "o", "g", " ", "W", "o", "r", "k">>,
     <<"N", "e", "e", "d", " ", "A", "u", "t", "o", "m", "a", "t", "i",
       "o", "n", " ", "H", "e", "l", "p">>,
     <<"O", "l", "d", " ", "S", "o", "l", "u", "t", "i", "o", "n">>,
     <<"O", "w", "n", "e", "r", " ", "T", "e", "a", "m">>,
     Sprint,
     <<"S", "t", "a", "t", "u", "s">>,
     <<"S", "u", "b", "-", "t", "a", "s", "k", "s">>,
     <<"W", "a", "t", "c", "h", "e", "r", "s">>,
     <<"V", "o", "t", "e", "s">>,
     <<"Sigma", " ", "O", "r", "i", "g", "i", "n", "a", "l", " ", "E", "s",
       "t", "i", "m", "a", "t", "e">>,
     <<"Sigma", " ", "P", "r", "o", "g", "r", "e", "s", "s">>,
     <<"Sigma", " ", "R", "e", "m", "a", "i", "n", "i", "n", "g", " ", "E",
       "s", "t", "i", "m", "a", "t", "e">>,
     <<"Sigma", " ", "T", "i", "m", "e", " ", "S", "p", "e", "n", "t">>,
     TimeInStatus}

\* the keys the function writes
flagged == <<"f", "l", "a", "g", "g", "e", "d">>
issue_type_column == <<"i", "s", "s", "u", "e", "_", "t", "y", "p", "e">>
sprint_ids == <<"s", "p", "r", "i", "n", "t", "_", "i", "d", "s">>
sprint_names ==
    <<"s", "p", "r", "i", "n", "t", "_", "n", "a", "m", "e", "s">>
active_sprint ==
    <<"a", "c", "t", "i", "v", "e", "_", "s", "p", "r", "i", "n", "t">>
multiple_sprints ==
    <<"m", "u", "l", "t", "i", "p", "l", "e", "_", "s", "p", "r", "i", "n",
      "t", "s">>
slotted_for_future_sprints ==
    <<"s", "l", "o", "t", "t", "e", "d", "_", "f", "o", "r", "_", "f", "u",
      "t", "u", "r", "e", "_", "s", "p", "r", "i", "n", "t", "s">>
time_in_ == <<"t", "i", "m", "e", "_", "i", "n", "_">>
time_in_status_ ==
    <<"t", "i", "m", "e", "_", "i", "n", "_", "s", "t", "a", "t", "u", "s",
      "_">>
\* the keys and the values the function reads
IdKey == <<"i", "d">>
NameKey == <<"n", "a", "m", "e">>
StateKey == <<"s", "t", "a", "t", "e">>
ValueKey == <<"v", "a", "l", "u", "e">>
Impediment == <<"I", "m", "p", "e", "d", "i", "m", "e", "n", "t">>
active == <<"a", "c", "t", "i", "v", "e">>
future == <<"f", "u", "t", "u", "r", "e">>
closed == <<"c", "l", "o", "s", "e", "d">>

\* s.replace(c, "")
remove(s, c) == SelectSeq(s, LAMBDA x : x # c)
\* s.split(sep)
RECURSIVE split(_, _)
split(s, sep) ==
    IF \A i \in 1..Len(s) : s[i] # sep
    THEN <<s>>
    ELSE LET i == CHOOSE i \in 1..Len(s) :
                      s[i] = sep /\ \A j \in 1..(i - 1) : s[j] # sep
         IN <<SubSeq(s, 1, i - 1)>> \o split(SubSeq(s, i + 1, Len(s)), sep)

\* self.global_status_mapping_by_project[project][status_id]['name']
Known(mapping, status_id) == \E i \in 1..Len(mapping) : mapping[i].id = status_id
NameOf(mapping, status_id) ==
    mapping[CHOOSE i \in 1..Len(mapping) : mapping[i].id = status_id].name

\* lines 685-696: the loop over the segments, from segment i on
RECURSIVE translate_segments(_, _, _, _)
translate_segments(translated, segments, i, mapping) ==
    IF i > Len(segments)
    THEN translated
    ELSE LET parts == split(segments[i], ":")
             status_id == parts[1]
             status_time == parts[3]
         IN translate_segments(
                IF Known(mapping, status_id)
                THEN DictSet(translated, time_in_ \o NameOf(mapping, status_id),
                             Str(status_time))
                ELSE DictSet(translated, time_in_status_ \o status_id,
                             Str(status_time)),
                segments, i + 1, mapping)
\* lines 698-702: the statuses this issue does not have, from entry i on
absent_statuses_Skip(translated, mapping, i, ids) == translated
RECURSIVE absent_statuses(_, _, _, _)
absent_statuses(translated, mapping, i, ids) ==
    IF i > Len(mapping)
    THEN translated
    ELSE absent_statuses(
             IF \E j \in 1..Len(ids) : ids[j] = mapping[i].id
             THEN translated
             ELSE DictSet(translated, time_in_ \o mapping[i].name, None),
             mapping, i + 1, ids)
\* lines 704-708: a null value, from entry i on
RECURSIVE null_statuses(_, _, _)
null_statuses(translated, mapping, i) ==
    IF i > Len(mapping)
    THEN translated
    ELSE null_statuses(
             DictSet(DictSet(translated, time_in_ \o mapping[i].name, None),
                     TimeInStatus, None),
             mapping, i + 1)
\* lines 680-708
translate_time_in_status(translated, value, mapping) ==
    IF value # None
    THEN LET clean_value == remove(remove(value.s, "*"), "_")
             segments == split(clean_value, "|")
         IN absent_statuses(
                translate_segments(
                    DictSet(translated, TimeInStatus, Str(clean_value)),
                    segments, 1, mapping),
                mapping, 1,
                [i \in 1..Len(segments) |-> split(segments[i], ":")[1]])
    ELSE null_statuses(translated, mapping, 1)

\* lines 735-744 and 746-755
some_sprint_in(value, state) ==
    \E i \in 1..Len(value.items) : get(value.items[i].val, StateKey) = Str(state)
\* line 745
more_than_one_AtLeastOne(value) == Len(value.items) >= 1
more_than_one(value) == Len(value.items) > 1
\* lines 720-755
translate_sprint(translated, value) ==
    LET Set5(ids, names, act, multiple, slotted) ==
            DictSet(DictSet(DictSet(DictSet(DictSet(translated,
                sprint_ids, ids), sprint_names, names), active_sprint, act),
                multiple_sprints, multiple), slotted_for_future_sprints, slotted)
    IN IF value = None
       THEN Set5(None, None, Bool(FALSE), Bool(FALSE), Bool(FALSE))
       ELSE Set5(List(SelectSeq([i \in 1..Len(value.items) |->
                                    get(value.items[i].val, IdKey)],
                                LAMBDA id : id # None)),
                 Str(join([i \in 1..Len(value.items) |->
                              Member(<<>>, get(value.items[i].val, NameKey))], 1)),
                 Bool(some_sprint_in(value, active)), Bool(more_than_one(value)),
                 Bool(some_sprint_in(value, future)))

\* lines 678-757: one turn of the loop over the fields of the row
translate_field(translated, field, value, mapping) ==
    IF field \notin special_fields
    THEN translated
    ELSE IF field = TimeInStatus
    THEN translate_time_in_status(translated, value, mapping)
    ELSE IF field = Flagged /\ value # None /\ Len(value.items) > 0
    THEN IF truthy(value)
         THEN DictSet(translated, flagged,
                      Bool(get(value.items[1].val, ValueKey) = Str(Impediment)))
         ELSE DictSet(translated, flagged, None)
    ELSE IF field = IssueType
    THEN IF truthy(value)
         THEN DictSet(translated, issue_type_column, get(value, NameKey))
         ELSE DictSet(translated, issue_type_column, None)
    ELSE IF field = Sprint
    THEN translate_sprint(translated, value)
    ELSE DictSet(translated, field, value)

\* translate_special_fields(issue, project), with the mapping of the project
RECURSIVE translate_special_fields(_, _, _, _)
translate_special_fields(translated, issue, i, mapping) ==
    IF i > Len(issue)
    THEN translated
    ELSE translate_special_fields(
             translate_field(translated, issue[i].key, issue[i].val, mapping),
             issue, i + 1, mapping)

\* the rows of the inputs: a sprint has an id (or none), a name and a state
Sprints ==
    {Dict(<<Member(IdKey, id), Member(NameKey, Str(name)), Member(StateKey, Str(state))>>) :
        id \in {None, Scalar("int", <<"1">>), Scalar("int", <<"2">>)},
        name \in {<<"A">>, <<"B">>},
        state \in {active, future, closed}}
SprintValues == {None} \cup ListsOf(Sprints, MaxSprints)
FlaggedValues ==
    {None} \cup ListsOf({Dict(<<Member(ValueKey, Str(v))>>) :
                            v \in {Impediment, <<"N", "o">>}}, 2)
IssueTypeValues ==
    {None, Dict(<<>>), Dict(<<Member(NameKey, Str(Bug))>>),
     Dict(<<Member(NameKey, Str(Task))>>)}
\* a segment of the chart field: status id, count, time in the status
Segment(id, time) == [id |-> id, time |-> time]
\* at most MaxSegments segments, each status at most once
SegLists ==
    {segs \in UNION {[1..n -> {Segment(id, time) :
                                  id \in {<<"1">>, <<"2">>, <<"3">>},
                                  time \in {<<"7">>, <<"9", "0">>}}] :
                        n \in 1..MaxSegments} :
        \A i, j \in 1..Len(segs) : segs[i].id = segs[j].id => i = j}
\* the field as Jira sends it: id_*:*_count_*:*_time, joined by _*|*_
RECURSIVE Render(_, _)
Render(segs, i) ==
    LET seg == segs[i].id \o <<"_", "*", ":", "*", "_", "1", "_", "*", ":", "*", "_">>
                   \o segs[i].time
    IN IF i = Len(segs)
       THEN seg
       ELSE seg \o <<"_", "*", "|", "*", "_">> \o Render(segs, i + 1)
TimeInStatusValues == {None} \cup {Str(Render(segs, 1)) : segs \in SegLists}
SpecialMembers ==
    {Member(Sprint, v) : v \in SprintValues}
        \cup {Member(Flagged, v) : v \in FlaggedValues}
        \cup {Member(IssueType, v) : v \in IssueTypeValues}
        \cup {Member(TimeInStatus, v) : v \in TimeInStatusValues}
        \cup {Member(Labels, Str(<<"x">>))}
TranslateRows ==
    {<<m>> : m \in SpecialMembers}
        \cup {<<Member(Summary, Str(<<"s">>)), m>> : m \in SpecialMembers}
\* the status mappings of the inputs
StatusMappings ==
    {<<>>, <<[id |-> <<"1">>, name |-> <<"O", "p", "e", "n">>]>>,
     <<[id |-> <<"2">>, name |-> <<"D", "o", "n", "e">>],
       [id |-> <<"1">>, name |-> <<"O", "p", "e", "n">>]>>}

translate ==
    /\ xlate.state = "called"
    /\ xlate' = [xlate EXCEPT
                   !.state = "returned",
                   !.out = translate_special_fields(<<>>, xlate.issue, 1,
                                                    xlate.mapping)]
    /\ UNCHANGED <<now, proc, flat, session, call, metaVars, gateVars, fetchVars,
                   syncVars>>

TranslateInit ==
    /\ now = InitClock
    /\ \E issue \in TranslateRows, mapping \in StatusMappings :
          xlate = [state |-> "called", issue |-> issue, mapping |-> mapping,
                   out |-> <<>>]
    /\ proc = ProcIdle
    /\ flat = FlatIdle
    /\ session = SessionIdle
    /\ call = NoCall
    /\ MetaStart
    /\ GateStart
    /\ FetchIdle
    /\ SyncIdle

TranslateNext == translate

TranslateSpec == TranslateInit /\ [][TranslateNext]_vars

(***************************************************************************)
(* DataFrameHandler.process_issues, field by field (lines 782-827). An     *)
(* issue is the JSON object of the search response; a row is the dict      *)
(* issue_data, the sequence of its entries in insertion order.             *)
(***************************************************************************)
MaxFields == 2
MaxRecords == 2

\* [a-zA-Z0-9]
Alphanumeric ==
    {"a", "b", "c", "d", "e", "f", "g", "h", "i", "j", "k", "l", "m", "n", "o",
     "p", "q", "r", "s", "t", "u", "v", "w", "x", "y", "z",
     "A", "B", "C", "D", "E", "F", "G", "H", "I", "J", "K", "L", "M", "N", "O",
     "P", "Q", "R", "S", "T", "U", "V", "W", "X", "Y", "Z",
     "0", "1", "2", "3", "4", "5", "6", "7", "8", "9"}
\* \s
Whitespace == {" ", "Tab"}
\* lines 664-666
normalize_field_name_KeepAll(field_name) == lower(replace_space(field_name))
normalize_field_name(field_name) ==
    lower(replace_space(
        SelectSeq(field_name, LAMBDA c : c \in Alphanumeric \cup Whitespace)))

KeyKey == <<"k", "e", "y">>
SelfKey == <<"s", "e", "l", "f">>
FieldsKey == <<"f", "i", "e", "l", "d", "s">>
api_url == <<"a", "p", "i", "_", "u", "r", "l">>

\* lines 806-816: the loop over the flattened fields from entry i on; the
\* result is issue_data and the name normalized_field_name is left with
RECURSIVE normalize_fields(_, _, _, _)
normalize_fields(issue_data, normalized_field_name, flattened_fields, i) ==
    IF i > Len(flattened_fields)
    THEN [issue_data |-> issue_data, normalized_field_name |-> normalized_field_name]
    ELSE LET field_name == split(flattened_fields[i].key, ".")[1]
             normalized == IF field_name # <<>>
                           THEN normalize_field_name(field_name)
                           ELSE normalized_field_name
         IN normalize_fields(
                DictSet(issue_data, normalized, flattened_fields[i].val),
                normalized, flattened_fields, i + 1)
\* issue_data.update(translated_issue), from entry i on
RECURSIVE update(_, _, _)
update(issue_data, translated_issue, i) ==
    IF i > Len(translated_issue)
    THEN issue_data
    ELSE update(DictSet(issue_data, translated_issue[i].key, translated_issue[i].val),
                translated_issue, i + 1)
\* lines 792-803
first_columns(issue) ==
    <<Member(IdKey, get(issue, IdKey)), Member(KeyKey, get(issue, KeyKey)),
      Member(api_url, get(issue, SelfKey))>>
\* lines 791-822: the loop over the issues from issue i on
RECURSIVE flattened_issues(_, _, _, _, _)
flattened_issues(rows, normalized_field_name, issue_list, i, mapping) ==
    IF i > Len(issue_list)
    THEN rows
    ELSE LET issue_fields ==
                 IF \E j \in 1..Len(issue_list[i].items) :
                        issue_list[i].items[j].key = FieldsKey
                 THEN get(issue_list[i], FieldsKey)
                 ELSE Dict(<<>>)
             flattened_fields == flatten(<<>>, issue_fields, <<>>)
             left == normalize_fields(first_columns(issue_list[i]),
                                      normalized_field_name, flattened_fields, 1)
             translated_issue ==
                 translate_special_fields(<<>>, left.issue_data, 1, mapping)
         IN flattened_issues(
                Append(rows, update(left.issue_data, translated_issue, 1)),
                left.normalized_field_name, issue_list, i + 1, mapping)

\* the fields of the inputs: a field with two members, two special fields,
\* "Issue Type", a field named "Key" and a field with the empty name
StatusField == <<"s", "t", "a", "t", "u", "s">>
FieldPool ==
    {Member(StatusField, Dict(<<Member(NameKey, Str(<<"O", "p", "e", "n">>)),
                                Member(IdKey, Scalar("int", <<"1">>))>>)),
     Member(Sprint, None),
     Member(IssueType, Dict(<<Member(NameKey, Str(Bug))>>)),
     Member(TimeInStatus, Str(Render(<<Segment(<<"1">>, <<"7">>)>>, 1))),
     Member(<<"K", "e", "y">>, Str(<<"z">>)),
     Member(<<>>, Str(<<"x">>))}
\* at most MaxFields fields, each name once
FieldLists ==
    {fl \in UNION {[1..n -> FieldPool] : n \in 0..MaxFields} :
        \A i, j \in 1..Len(fl) : fl[i].key = fl[j].key => i = j}
\* the issue at place i of the response
JiraIssue(i, fl) ==
    Dict(<<Member(IdKey, Str(str_int(i))), Member(KeyKey, Str(<<"K">> \o str_int(i))),
           Member(SelfKey, Str(<<"u">> \o str_int(i))), Member(FieldsKey, Dict(fl))>>)
IssueLists ==
    {[i \in 1..Len(fls) |-> JiraIssue(i, fls[i])] :
        fls \in UNION {[1..n -> FieldLists] : n \in 0..MaxRecords}}
\* lines 652 and 672-673: no status is ever put into the mapping
global_status_mapping == <<>>

\* process_issues(issues, names_dict), up to the list of the rows
process ==
    /\ proc.state = "called"
    /\ proc' = [proc EXCEPT
                  !.state = "returned",
                  !.none = proc.issues = <<>>,
                  !.rows = IF proc.issues = <<>>
                           THEN <<>>
                           ELSE flattened_issues(<<>>, <<>>, proc.issues, 1,
                                                 global_status_mapping)]
    /\ UNCHANGED <<now, xlate, flat, session, call, metaVars, gateVars, fetchVars,
                   syncVars>>

ProcessInit ==
    /\ now = InitClock
    /\ xlate = XlateIdle
    /\ \E issue_list \in IssueLists :
          proc = [state |-> "called", issues |-> issue_list, none |-> FALSE,
                  rows |-> <<>>]
    /\ flat = FlatIdle
    /\ session = SessionIdle
    /\ call = NoCall
    /\ MetaStart
    /\ GateStart
    /\ FetchIdle
    /\ SyncIdle

ProcessNext == process

ProcessSpec == ProcessInit /\ [][ProcessNext]_vars

(***************************************************************************)
(* The sink tables (DeltaTableHandler.upsert_data). A row keeps the id of  *)
(* the issue and, for all its other columns, the version fetched.          *)
(***************************************************************************)
\* the null id; issue ids are positive
Null == 0
NoneDF == [none |-> TRUE, rows |-> <<>>]
DataFrame(rows) == [none |-> FALSE, rows |-> rows]

\* line 984
table_name(P, T) ==
    <<"jira_issues_delta_">> \o lower(P) \o <<"_">> \o replace_space(lower(T))

\* line 983
NotNullId_KeepAll(rows) == rows
NotNullId(rows) == SelectSeq(rows, LAMBDA r : r.id # Null)
HasId(rows, id) == \E i \in 1..Len(rows) : rows[i].id = id
SourceRow(source, id) == source[CHOOSE i \in 1..Len(source) : source[i].id = id]
\* lines 988-994: merge on target.id = source.id, whenMatchedUpdateAll,
\* whenNotMatchedInsertAll
MergeRows_InsertAll(target, source) == target \o source
MergeRows(target, source) ==
    [i \in 1..Len(target) |->
        IF HasId(source, target[i].id) THEN SourceRow(source, target[i].id) ELSE target[i]]
    \o SelectSeq(source, LAMBDA r : ~HasId(target, r.id))
\* the merge is refused when several source rows match one target row
MergeRaises(target, source) ==
    \E i \in 1..Len(target) :
        Cardinality({j \in 1..Len(source) : source[j].id = target[i].id}) > 1

upsert_data_raises(tabs, df, P, T) ==
    /\ ~df.none
    /\ Len(df.rows) > 0
    /\ table_name(P, T) \in DOMAIN tabs
    /\ MergeRaises(tabs[table_name(P, T)], NotNullId(df.rows))

upsert_data_tables(tabs, df, P, T) ==
    IF df.none \/ Len(df.rows) = 0
    THEN tabs                                           \* lines 979-981
    ELSE IF table_name(P, T) \in DOMAIN tabs
    THEN [tabs EXCEPT ![table_name(P, T)] = MergeRows(@, NotNullId(df.rows))]
    ELSE tabs @@ (table_name(P, T) :> NotNullId(df.rows))  \* line 997

\* issue type names that differ in a space and an underscore only
SubSp == <<"S", "u", "b", " ", "t">>
SubUs == <<"S", "u", "b", "_", "t">>
SinkPairs == {<<P1, SubSp>>, <<P1, SubUs>>, <<P2, Task>>}
\* the rows a batch is made of: a null id, two versions of issue 1, issue 2
SinkRows == {[id |-> Null, updated |-> 0], [id |-> 1, updated |-> 0],
             [id |-> 1, updated |-> 1], [id |-> 2, updated |-> 0]}
\* the batches of at most MaxBatch rows, each listed once whatever the order
\* of its rows (rows by id, then by version)
RowLeq(r1, r2) == r1.id < r2.id \/ (r1.id = r2.id /\ r1.updated <= r2.updated)
Batches ==
    {NoneDF} \cup
    {DataFrame(b) : b \in {x \in UNION {[1..n -> SinkRows] : n \in 0..MaxBatch} :
                              \A i \in 1..Len(x) - 1 : RowLeq(x[i], x[i + 1])}}

CallsMade == IF call.op = "upsert_data" THEN call.n ELSE 0
\* the batch is one row with a non-null id
SingleId(df) ==
    IF ~df.none /\ Len(df.rows) = 1 THEN df.rows[1].id ELSE Null

\* DeltaTableHandler.upsert_data (lines 975-1000); the call record keeps the
\* sink as it was before the call and how the call relates to the one before
upsert_data(df, P, T) ==
    LET raises == upsert_data_raises(tables, df, P, T)
        follows == /\ call.op = "upsert_data"
                   /\ call.project_key = P /\ call.issue_type = T
    IN  /\ call' = [op |-> "upsert_data", project_key |-> P, issue_type |-> T,
                    df |-> df, raised |-> raises, before |-> tables,
                    n |-> CallsMade + 1,
                    \* both calls completed with one row of the same id
                    again |-> IF follows /\ ~call.raised /\ ~raises
                                 /\ SingleId(df) # Null
                                 /\ SingleId(call.df) = SingleId(df)
                              THEN SingleId(df) ELSE Null,
                    \* the call before had the same arguments
                    repeat |-> follows /\ call.df = df]
        /\ tables' = IF raises THEN tables ELSE upsert_data_tables(tables, df, P, T)
        /\ UNCHANGED <<now, xlate, proc, flat, session, metaVars, gateVars, fetchVars, srv, pc, projects, project,
                       issuetype_fields, issue_types, issue_type, last_sync_time,
                       issues, issues_df, pass>>

UpsertInit == MetaInit

UpsertNext ==
    /\ CallsMade < MaxCalls
    /\ \E df \in Batches, pr \in SinkPairs : upsert_data(df, pr[1], pr[2])

UpsertSpec == UpsertInit /\ [][UpsertNext]_vars

\* DataFrameHandler.process_issues: one row per issue
process_issues(fetched) ==
    IF fetched = <<>>
    THEN NoneDF
    ELSE DataFrame([i \in 1..Len(fetched) |->
                       [id |-> fetched[i].id, updated |-> fetched[i].updated]])

(***************************************************************************)
(* The sync loop of __main__ (lines 1003-1074). A pass is one run of the   *)
(* script; the process may be killed at any point of a pass.               *)
(***************************************************************************)
testing_mode == TRUE
\* credentials["projects"]
SyncProjects == <<[instance |-> <<"a", "b">>, project |-> P1],
                  [instance |-> <<"c">>, project |-> P2]>>
\* the issue type names /rest/api/2/project/<key>/statuses lists
StatusTypes(P) == IF P = P1 THEN <<Bug, Task>> ELSE <<Task>>
\* the (project, issue type) pairs a pass can visit
SyncPairs == {<<P1, Bug>>, <<P1, Task>>, <<P2, Task>>}
\* JiraHandler.default_fields is None (line 154) unless connect_instance ran
default_fields_is_None == TRUE

NoFields == [none |-> TRUE, names |-> {}]
Createmeta(names) == [none |-> FALSE, names |-> names]

\* line 1035 as the server evaluates it: updated >= "<last_sync_time>",
\* ORDER BY updated ASC (srv is kept in that order)
Matching(P, T, since) ==
    SelectSeq(srv[<<P, T>>], LAMBDA x : strftime(x.updated) >= since)

\* the stored watermark of a pair, as get_sync_metadata would answer it
Watermark(pr) == get_sync_metadata_ret(metaExists, meta, pr[1], pr[2])
CurPair == <<project.project, issue_type>>

\* what a pass that ends before the watermark write of CurPair leaves behind:
\* the pair, its table and batch as upserted, and its stored watermark
Interrupted ==
    <<[pair |-> CurPair,
       table |-> IF table_name(project.project, issue_type) \in DOMAIN tables
                 THEN tables[table_name(project.project, issue_type)]
                 ELSE <<>>,
       batch |-> issues_df.rows,
       wm |-> Watermark(CurPair)]>>

\* the record of a new pass; retryOf is what the pass before it left behind
\* when it ended between the upsert and the watermark write of a pair
NewPass ==
    [upserted |-> {}, advanceCalled |-> {}, advanced |-> {}, empty |-> {},
     unresolved |-> {},
     \* the pairs whose fetch returned every issue of the query, the pairs
     \* whose fetch ended on a failed request with issues collected, and the
     \* values update_sync_metadata was called with
     complete |-> {}, partial |-> {}, calledWith |-> {},
     wmBefore |-> [pr \in SyncPairs |-> Watermark(pr)],
     interrupted |-> <<>>,
     retryOf |-> IF pc = "idle" THEN <<>> ELSE pass.interrupted]

\* the process is gone: nothing is left of its memory
ProcessGone ==
    /\ call' = NoCall
    /\ result' = <<>>
    /\ fpc' = "idle"
    /\ start_at' = 0
    /\ issues_to_fetch' = <<>>
    /\ requests' = <<>>
    /\ served' = <<>>
    /\ lastData' = "none yet"
    /\ allFull' = TRUE
    /\ shorts' = 0
    /\ projects' = <<>>
    /\ project' = "none"
    /\ issuetype_fields' = NoFields
    /\ issue_types' = <<>>
    /\ issue_type' = "none"
    /\ last_sync_time' = Epoch
    /\ issues' = <<>>
    /\ issues_df' = NoneDF
    /\ instance_blacklist' = {}
    /\ issuetypes_by_project' = [p \in ProjectKeys |-> "absent"]
    /\ jiradefaults_by_project' = [p \in ProjectKeys |-> "absent"]

\* the order of the statements of the branch "if issues:" (lines 1041-1068)
NextStep_AdvanceFirst(at) ==
    CASE at = "lookup" -> "advance"
      [] at = "advance" -> "upsert"
      [] at = "upsert" -> "pair"
NextStep(at) ==
    CASE at = "lookup" -> "upsert"
      [] at = "upsert" -> "advance"
      [] at = "advance" -> "pair"
\* where the branch "else:" (lines 1069-1072) leads
ElseBranchNext_Advances == "advance"
ElseBranchNext == "pair"

\* lines 1003-1019: the handlers are built, the blacklist is loaded and, in
\* testing_mode, the blacklist table is dropped
StartPass ==
    /\ pc \in {"idle", "done", "raised", "killed"}
    /\ instance_blacklist' = get_blacklist(blExists, blTable)
    /\ issuetypes_by_project' = [p \in ProjectKeys |-> "absent"]
    /\ jiradefaults_by_project' = [p \in ProjectKeys |-> "absent"]
    /\ IF testing_mode
       THEN blExists' = FALSE /\ blTable' = <<>>
       ELSE UNCHANGED <<blExists, blTable>>
    /\ projects' = SyncProjects
    /\ pass' = NewPass
    /\ pc' = "project"
    /\ UNCHANGED <<now, xlate, proc, flat, session, call, metaVars, fetchVars, srv, tables, project,
                   issuetype_fields, issue_types, issue_type, last_sync_time,
                   issues, issues_df>>

\* lines 1021-1030
SyncProject ==
    /\ pc = "project"
    /\ IF projects = <<>>
       THEN /\ pc' = "done"                               \* line 1074
            /\ ProcessGone
       ELSE LET p == Head(projects) IN
            /\ UNCHANGED <<call, fetchVars, instance_blacklist, jiradefaults_by_project,
                           issue_type, last_sync_time, issues, issues_df>>
            /\ project' = p
            /\ projects' = Tail(projects)
            /\ IF IsBlacklisted(p.instance, instance_blacklist)
               THEN /\ issuetype_fields' = NoFields
                    /\ issue_types' = <<>>
                    /\ UNCHANGED issuetypes_by_project
               ELSE /\ \E reply \in {NoFields, Createmeta({}), Createmeta(IssueTypes)} :
                          /\ issuetype_fields' = reply
                          /\ issuetypes_by_project' =
                                [issuetypes_by_project EXCEPT ![p.project] =
                                    IF reply.none THEN "None" ELSE "data"]
                    /\ \E reply \in {<<>>, StatusTypes(p.project)} : issue_types' = reply
            /\ pc' = "pair"
    /\ UNCHANGED <<now, xlate, proc, flat, session, metaVars, blExists, blTable, srv, tables, pass>>

\* lines 1032-1037: next issue type, get_sync_metadata, the query is built
\* and fetch_issues starts
SyncPair ==
    /\ pc = "pair"
    /\ IF issue_types = <<>>
       THEN /\ pc' = "project"
            /\ UNCHANGED <<metaVars, fetchVars, issue_types, issue_type, last_sync_time>>
       ELSE LET T == Head(issue_types) IN
            /\ issue_type' = T
            /\ issue_types' = Tail(issue_types)
            /\ \E r \in get_sync_metadata_ret(metaExists, meta, project.project, T) :
                  /\ last_sync_time' = r
                  /\ result' = Matching(project.project, T, r)
            /\ meta' = get_sync_metadata_rows(metaExists, meta, project.project, T)
            /\ metaExists' = TRUE
            /\ fpc' = "request"
            /\ start_at' = 0
            /\ issues_to_fetch' = <<>>
            /\ requests' = <<>>
            /\ served' = <<>>
            /\ lastData' = "none yet"
            /\ allFull' = TRUE
            /\ shorts' = 0
            /\ pc' = "fetch"
    /\ UNCHANGED <<now, xlate, proc, flat, session, call, gateVars, srv, tables, projects, project,
                   issuetype_fields, issues, issues_df, pass>>

SyncSend ==
    /\ pc = "fetch"
    /\ SendRequest
    /\ UNCHANGED <<now, xlate, proc, flat, session, call, metaVars, gateVars, syncVars>>

SyncReceive ==
    /\ pc = "fetch"
    /\ \E data \in ServerResponses : ReceiveResponse(data)
    /\ UNCHANGED <<now, xlate, proc, flat, session, metaVars, gateVars, syncVars>>

\* lines 1037-1043 and 1069-1072: "if issues:", process_issues, or the log line
\* (the issues served carry the key "names" that line 397 reads)
SyncBranch ==
    /\ pc = "fetch"
    /\ fpc = "returned"
    \* fetch_issues has returned: its locals are gone
    /\ result' = <<>>
    /\ fpc' = "idle"
    /\ start_at' = 0
    /\ issues_to_fetch' = <<>>
    /\ requests' = <<>>
    /\ served' = <<>>
    /\ lastData' = "none yet"
    /\ allFull' = TRUE
    /\ shorts' = 0
    /\ issues' = call.ret
    /\ IF call.ret # <<>>
       THEN /\ issues_df' = process_issues(call.ret)
            /\ pc' = "lookup"
            /\ pass' = [pass EXCEPT
                          !.complete = IF call.ret = result
                                       THEN @ \cup {CurPair} ELSE @,
                          !.partial = IF lastData # "page"
                                      THEN @ \cup {CurPair} ELSE @]
       ELSE /\ pass' = [pass EXCEPT !.empty = @ \cup {CurPair}]
            /\ pc' = ElseBranchNext
            /\ UNCHANGED issues_df
    /\ UNCHANGED <<now, xlate, proc, flat, session, call, metaVars, gateVars, srv, tables,
                   projects, project, issuetype_fields, issue_types, issue_type,
                   last_sync_time>>

\* an exception leaves __main__: the pass is over
Raise == pc' = "raised" /\ ProcessGone

\* lines 1045-1060: issuetype_fields.items() raises when issuetype_fields is
\* None; when the type is found, None | set raises
SyncLookup ==
    /\ pc = "lookup"
    /\ IF \/ issuetype_fields.none
          \/ /\ \E name \in issuetype_fields.names : lower(name) = lower(issue_type)
             /\ default_fields_is_None
       THEN Raise /\ UNCHANGED pass
       ELSE /\ pc' = NextStep("lookup")             \* issue_type_id is None
            /\ pass' = [pass EXCEPT !.unresolved = @ \cup {CurPair}]
            /\ UNCHANGED <<call, gateVars, fetchVars, projects, project,
                           issuetype_fields, issue_types, issue_type,
                           last_sync_time, issues, issues_df>>
    /\ UNCHANGED <<now, xlate, proc, flat, session, metaVars, blExists, blTable, srv, tables>>

\* line 1064
SyncUpsert ==
    /\ pc = "upsert"
    /\ IF upsert_data_raises(tables, issues_df, project.project, issue_type)
       THEN /\ Raise
            /\ UNCHANGED <<tables, pass>>
       ELSE /\ tables' = upsert_data_tables(tables, issues_df, project.project, issue_type)
            /\ pass' = [pass EXCEPT !.upserted = @ \cup {CurPair}]
            /\ pc' = NextStep("upsert")
            /\ UNCHANGED <<call, gateVars, fetchVars, projects, project,
                           issuetype_fields, issue_types, issue_type,
                           last_sync_time, issues, issues_df>>
    /\ UNCHANGED <<now, xlate, proc, flat, session, metaVars, blExists, blTable, srv>>

\* lines 1065-1068
SyncAdvance ==
    /\ pc = "advance"
    /\ meta' = update_sync_metadata_rows(metaExists, meta, project.project, issue_type,
                                         strftime(now))
    /\ metaExists' = TRUE
    /\ IF update_sync_metadata_raises(metaExists)
       THEN /\ Raise
            /\ pass' = [pass EXCEPT !.advanceCalled = @ \cup {CurPair},
                                    !.calledWith = @ \cup {<<CurPair, strftime(now)>>},
                                    !.interrupted = Interrupted]
       ELSE /\ pc' = NextStep("advance")
            /\ pass' = [pass EXCEPT !.advanceCalled = @ \cup {CurPair},
                                    !.calledWith = @ \cup {<<CurPair, strftime(now)>>},
                                    !.advanced = @ \cup {CurPair}]
            /\ UNCHANGED <<call, gateVars, fetchVars, projects, project,
                           issuetype_fields, issue_types, issue_type,
                           last_sync_time, issues, issues_df>>
    /\ UNCHANGED <<now, xlate, proc, flat, session, blExists, blTable, srv, tables>>

\* the process is killed
Crash ==
    /\ pc \notin {"idle", "done", "raised", "killed"}
    /\ pc' = "killed"
    /\ ProcessGone
    /\ pass' = IF pc = "advance"
               THEN [pass EXCEPT !.interrupted = Interrupted]
               ELSE pass
    /\ UNCHANGED <<now, xlate, proc, flat, session, metaVars, blExists, blTable, srv, tables>>

Init ==
    /\ now = InitClock
    /\ xlate = XlateIdle
    /\ proc = ProcIdle
    /\ flat = FlatIdle
    /\ session = SessionIdle
    /\ call = NoCall
    /\ MetaStart
    /\ GateStart
    /\ FetchIdle
    /\ srv \in [SyncPairs -> {<<>>, [i \in 1..MaxIssues |-> Issue(i, 1)]}]
    /\ tables = <<>>
    /\ pc = "idle"
    /\ projects = <<>>
    /\ project = "none"
    /\ issuetype_fields = NoFields
    /\ issue_types = <<>>
    /\ issue_type = "none"
    /\ last_sync_time = Epoch
    /\ issues = <<>>
    /\ issues_df = NoneDF
    /\ pass = "none"

Next ==
    \/ StartPass
    \/ SyncProject
    \/ SyncPair
    \/ SyncSend
    \/ SyncReceive
    \/ SyncBranch
    \/ SyncLookup
    \/ SyncUpsert
    \/ SyncAdvance
    \/ Crash

Spec == Init /\ [][Next]_vars

(***************************************************************************)
(* The sync loop on a tracker that changes while a pass runs: between the  *)
(* return of fetch_issues (line 1037) and datetime.now() (line 1065) an    *)
(* issue of the pair is updated on the tracker, and the clock goes on.     *)
(***************************************************************************)
\* the clock goes on while the pass is between the fetch and the upsert
Tick ==
    /\ pc \in {"lookup", "upsert"}
    /\ now < MaxTime
    /\ now' = now + 1
    /\ UNCHANGED <<xlate, proc, flat, session, call, metaVars, gateVars, fetchVars,
                   syncVars>>

\* issue i of the pair is updated on the tracker: its new version is the
\* last in the order of the query
TrackerUpdate(i) ==
    /\ pc = "lookup"
    /\ i \in 1..Len(srv[CurPair])
    /\ srv[CurPair][i].updated < now
    /\ srv' = [srv EXCEPT ![CurPair] =
                  SubSeq(@, 1, i - 1) \o SubSeq(@, i + 1, Len(@))
                      \o <<Issue(@[i].id, now)>>]
    /\ UNCHANGED <<now, xlate, proc, flat, session, call, metaVars, gateVars,
                   fetchVars, tables, pc, projects, project, issuetype_fields,
                   issue_types, issue_type, last_sync_time, issues, issues_df, pass>>

\* the first pass starts in the last tick of a minute; one pair holds issues,
\* each last updated a tick before
TrackerInit ==
    /\ now = InitClock - 1
    /\ xlate = XlateIdle
    /\ proc = ProcIdle
    /\ flat = FlatIdle
    /\ session = SessionIdle
    /\ call = NoCall
    /\ MetaStart
    /\ GateStart
    /\ FetchIdle
    /\ srv = [pr \in SyncPairs |->
                 IF pr = <<P1, Bug>>
                 THEN [i \in 1..MaxIssues |-> Issue(i, InitClock - 2)]
                 ELSE <<>>]
    /\ tables = <<>>
    /\ pc = "idle"
    /\ projects = <<>>
    /\ project = "none"
    /\ issuetype_fields = NoFields
    /\ issue_types = <<>>
    /\ issue_type = "none"
    /\ last_sync_time = Epoch
    /\ issues = <<>>
    /\ issues_df = NoneDF
    /\ pass = "none"

TrackerNext ==
    \/ Next
    \/ Tick
    \/ \E i \in 1..MaxIssues : TrackerUpdate(i)

TrackerSpec == TrackerInit /\ [][TrackerNext]_vars

(***************************************************************************)
(* Claims on the sync loop, checked under Spec.                            *)
(***************************************************************************)
InPass == pc # "idle"
TableOf(tabs, pr) ==
    IF table_name(pr[1], pr[2]) \in DOMAIN tabs
    THEN <<tabs[table_name(pr[1], pr[2])]>>
    ELSE <<>>

\* C1: in every pass update_sync_metadata is called for a pair, and a
\* watermark advance recorded for it, only after upsert_data for that pair has
\* returned in the same pass.
C1_AdvanceOnlyAfterUpsert ==
    InPass =>
        /\ pass.advanceCalled \subseteq pass.upserted
        /\ pass.advanced \subseteq pass.upserted
        /\ (pc = "advance" => CurPair \in pass.upserted)

\* C1 witness: the watermark write of a pair was reached after its upsert.
C1_Witness ==
    /\ InPass
    /\ \E pr \in pass.advanceCalled :
          pr \in pass.upserted /\ TableOf(tables, pr) # <<>>

\* C2: a pair whose fetch returned no issue gets no upsert and no call of
\* update_sync_metadata in that pass, and the last_sync_time stored for it is
\* what it was before the pass.
C2_EmptyFetchChangesNothing ==
    InPass =>
        \A pr \in pass.empty :
            /\ pr \notin pass.upserted
            /\ pr \notin pass.advanceCalled
            /\ Watermark(pr) = pass.wmBefore[pr]

\* C2 witness: a pass that ended after one pair fetched nothing and another
\* pair was upserted.
C2_Witness ==
    /\ pc \in {"done", "raised", "killed"}
    /\ pass.empty # {}
    /\ pass.upserted # {}

(***************************************************************************)
(* Claims on the sink, checked under UpsertSpec.                           *)
(***************************************************************************)
IsUpsert == call.op = "upsert_data"
CallName == table_name(call.project_key, call.issue_type)
CallTable == tables[CallName]
RowsWithId(rows, id) == {j \in 1..Len(rows) : rows[j].id = id}
BatchIds(df) == {df.rows[j].id : j \in 1..Len(df.rows)} \ {Null}

\* C11: after two completed upserts in a row of one row with the same id i
\* for the same pair, the table of the pair holds exactly one row with id i
\* and it is the row of the second write; a call that repeats the arguments
\* of the call before it leaves every table as it was.
C11_UpsertIdempotent ==
    IsUpsert =>
        /\ call.again # Null =>
              /\ Cardinality(RowsWithId(CallTable, call.again)) = 1
              /\ \A j \in RowsWithId(CallTable, call.again) :
                    CallTable[j] = call.df.rows[1]
        /\ call.repeat => tables = call.before

\* C12: upsert_data with a non-empty batch on an existing table overwrites
\* every table row whose id is in the batch with a batch row of that id,
\* inserts every batch row whose (non-null) id the table did not hold, and
\* leaves every other table row where and as it was.
C12_MergeOnId ==
    (IsUpsert /\ ~call.df.none /\ Len(call.df.rows) > 0
              /\ CallName \in DOMAIN call.before) =>
        LET target == call.before[CallName]
            source == NotNullId(call.df.rows)
        IN  /\ Len(CallTable) >= Len(target)
            /\ \A i \in 1..Len(target) :
                  IF target[i].id \in BatchIds(call.df)
                  THEN /\ CallTable[i].id = target[i].id
                       /\ \E j \in 1..Len(source) : source[j] = CallTable[i]
                  ELSE CallTable[i] = target[i]
            /\ \A j \in 1..Len(source) :
                  RowsWithId(target, source[j].id) = {} =>
                      \E i \in Len(target) + 1..Len(CallTable) : CallTable[i] = source[j]
            /\ \A i \in Len(target) + 1..Len(CallTable) :
                  \E j \in 1..Len(source) :
                      /\ CallTable[i] = source[j]
                      /\ RowsWithId(target, source[j].id) = {}

\* C13: no sink table ever holds a row whose id is null.
C13_NoNullId ==
    \A name \in DOMAIN tables : RowsWithId(tables[name], Null) = {}

\* C13 witness: batches holding a null id next to another row went through
\* the create-table branch and then through the merge branch, and both wrote.
C13_Witness ==
    /\ IsUpsert /\ ~call.raised /\ ~call.df.none
    /\ CallName \in DOMAIN call.before
    /\ RowsWithId(call.df.rows, Null) # {}
    /\ Len(CallTable) > Len(call.before[CallName])
    /\ Len(call.before[CallName]) > 0

\* C18: an upsert for one pair leaves the table of every other pair as it
\* was (different pairs have different table names).
C18_OneTablePerPair ==
    IsUpsert =>
        \A pr \in SinkPairs \ {<<call.project_key, call.issue_type>>} :
            /\ table_name(pr[1], pr[2]) # CallName
            /\ TableOf(tables, pr) = TableOf(call.before, pr)

(***************************************************************************)
(* Claims on passes that fail or are retried, checked under Spec.          *)
(***************************************************************************)
Ids(rows) == {rows[i].id : i \in 1..Len(rows)}
NoIdTwice(rows) == \A i, j \in 1..Len(rows) : rows[i].id = rows[j].id => i = j
\* the pass follows one that ended between the upsert and the watermark write
IsRetry == InPass /\ pass.retryOf # <<>>

\* C14: a pass that follows one ended between the upsert and the watermark
\* write of a pair starts from the watermark that pass left; once it has
\* upserted the pair again the table has every id it had, no id twice, and,
\* when the batch is the batch of the first pass, exactly the rows it had;
\* and it reaches the watermark write of the pair only after that upsert.
C14_RetryAfterCrashIsSafe ==
    IsRetry =>
        LET first == pass.retryOf[1] IN
        /\ pass.wmBefore[first.pair] = first.wm
        /\ first.pair \in pass.advanceCalled => first.pair \in pass.upserted
        /\ first.pair \in pass.upserted =>
              LET rows == TableOf(tables, first.pair)[1] IN
              /\ Ids(first.table) \subseteq Ids(rows)
              /\ NoIdTwice(rows)
              /\ (pc = "advance" /\ CurPair = first.pair
                      /\ issues_df.rows = first.batch) => rows = first.table
              /\ (pass.interrupted # <<>> /\ pass.interrupted[1].pair = first.pair
                      /\ pass.interrupted[1].batch = first.batch) =>
                    /\ rows = first.table
                    /\ pass.interrupted[1].wm = first.wm

\* C14 witness: the retry has upserted the batch of the first pass again, a
\* batch of several rows, and has come to the watermark write.
C14_Witness ==
    /\ IsRetry
    /\ pass.retryOf[1].pair \in pass.upserted
    /\ pass.interrupted # <<>>
    /\ pass.interrupted[1].pair = pass.retryOf[1].pair
    /\ pass.interrupted[1].batch = pass.retryOf[1].batch
    /\ Len(pass.retryOf[1].batch) > 1

\* C15: no pass is ended by an exception of one pair: an error raised while
\* a pair is processed leaves the pass running.
C15_FailureDoesNotAbortPass == pc # "raised"

\* C16: a pair for which no entry of the createmeta has the name of the
\* issue type gets no upsert and no watermark write in the pass.
C16_UnresolvedTypeSkipped ==
    InPass =>
        \A pr \in pass.unresolved :
            /\ pr \notin pass.upserted
            /\ pr \notin pass.advanceCalled

\* C23: when fetch_issuetype_fields has returned None for the project, the
\* pass does not raise at the lookup of the issue type: it goes on with the
\* pair or with the next one.
C23_MissingMetadataSkipped ==
    [][(pc = "lookup" /\ issuetype_fields.none) => pc' # "raised"]_vars

(***************************************************************************)
(* Claims on flatten_json, checked under FlattenSpec. A path is the list   *)
(* of the member names and indexes that lead to a value.                   *)
(***************************************************************************)
FlattenReturned == flat.state = "returned"
OutEntries == {flat.out[i] : i \in 1..Len(flat.out)}

\* the key of a path: its segments with "." between them
RECURSIVE KeyOf(_)
KeyOf(path) ==
    IF path = <<>> THEN <<>>
    ELSE IF Len(path) = 1 THEN path[1]
    ELSE path[1] \o <<".">> \o KeyOf(Tail(path))

OnlyScalars(x) == \A i \in 1..Len(x.items) : x.items[i].val.k \notin {"dict", "list"}
\* the elements of a list of scalars with "," between them
RECURSIVE CommaJoined(_)
CommaJoined(elems) ==
    IF elems = <<>> THEN <<>>
    ELSE IF Len(elems) = 1 THEN elems[1].val.s
    ELSE CommaJoined(SubSeq(elems, 1, Len(elems) - 1)) \o <<",">> \o elems[Len(elems)].val.s

\* the entries the rule gives for the value x found at a path
RECURSIVE RuleEntries(_, _)
RuleEntries(x, path) ==
    CASE x.k = "dict" ->
            UNION {RuleEntries(x.items[i].val, Append(path, x.items[i].key)) :
                      i \in 1..Len(x.items)}
      [] x.k = "list" /\ OnlyScalars(x) ->
            {Member(KeyOf(path), Str(CommaJoined(x.items)))}
      [] x.k = "list" /\ ~OnlyScalars(x) ->
            UNION {RuleEntries(x.items[i].val, Append(path, str_int(i - 1))) :
                      i \in 1..Len(x.items)}
      [] OTHER -> {Member(KeyOf(path), x)}

\* C19: the dict flatten_json returns holds exactly the entries of the rule:
\* members under <path>.<member>, a list of scalars as its elements joined
\* by ",", the elements of any other list under <path>.<index>, a scalar at
\* its path.
C19_FlattenRule ==
    FlattenReturned =>
        /\ OutEntries = RuleEntries(flat.y, <<>>)
        /\ Cardinality(OutEntries) = Len(flat.out)

One == Scalar("int", <<"1">>)
Two == Scalar("int", <<"2">>)
\* C19 witness: {a:[{b:1},{b:2}]} gave {"a.0.b":1, "a.1.b":2}, and the
\* inputs hold {a:{b:1}} and {a:[1,2,2]}, which give {"a.b":1} and
\* {"a":"1,2,2"}.
C19_Witness ==
    /\ FlattenReturned
    /\ flat.y = Dict(<<Member(KeyA, List(<<Dict(<<Member(KeyB, One)>>),
                                            Dict(<<Member(KeyB, Two)>>)>>))>>)
    /\ flat.out = <<Member(<<"a", ".", "0", ".", "b">>, One),
                    Member(<<"a", ".", "1", ".", "b">>, Two)>>
    /\ flatten(<<>>, Dict(<<Member(KeyA, Dict(<<Member(KeyB, One)>>))>>), <<>>)
          = <<Member(<<"a", ".", "b">>, One)>>
    /\ flatten(<<>>, Dict(<<Member(KeyA, List(<<One, Two, Two>>))>>), <<>>)
          = <<Member(<<"a">>, Str(<<"1", ",", "2", ",", "2">>))>>

\* the paths of the empty dicts and empty lists of x
RECURSIVE EmptyPaths(_, _)
EmptyPaths(x, path) ==
    IF x.k = "scalar" THEN {}
    ELSE IF Len(x.items) = 0 THEN {path}
    ELSE UNION {EmptyPaths(x.items[i].val,
                           Append(path, IF x.k = "list" THEN str_int(i - 1)
                                                        ELSE x.items[i].key)) :
                   i \in 1..Len(x.items)}
\* key is the key of the path, or of a path below it
AtOrBelow(key, path) ==
    \/ path = <<>>
    \/ key = KeyOf(path)
    \/ /\ Len(key) > Len(KeyOf(path))
       /\ SubSeq(key, 1, Len(KeyOf(path)) + 1) = KeyOf(path) \o <<".">>

\* C20: the dict flatten_json returns has no key at or below the path of an
\* empty dict or an empty list of y.
C20_EmptyContainersDropped ==
    FlattenReturned =>
        \A path \in EmptyPaths(flat.y, <<>>) :
            \A e \in OutEntries : ~AtOrBelow(e.key, path)


(***************************************************************************)
(* Claims on translate_special_fields, checked under TranslateSpec.        *)
(***************************************************************************)
Translated == xlate.state = "returned"
HasField(row, field) == \E i \in 1..Len(row) : row[i].key = field
FieldValue(row, field) == row[CHOOSE i \in 1..Len(row) : row[i].key = field].val
\* what a row holds in a column; a row without the column holds Missing
Missing == Scalar("missing", <<>>)
Column(row, key) == IF HasField(row, key) THEN FieldValue(row, key) ELSE Missing

\* the non-null ids of the sprints, in order
RECURSIVE NonNullIds(_, _)
NonNullIds(sprints, i) ==
    IF i > Len(sprints)
    THEN <<>>
    ELSE (IF get(sprints[i].val, IdKey) = None
          THEN <<>>
          ELSE <<get(sprints[i].val, IdKey)>>) \o NonNullIds(sprints, i + 1)
\* the names of the sprints with a comma between two of them
RECURSIVE NamesJoined(_, _)
NamesJoined(sprints, i) ==
    IF i > Len(sprints)
    THEN <<>>
    ELSE get(sprints[i].val, NameKey).s
             \o (IF i < Len(sprints) THEN <<",">> ELSE <<>>)
             \o NamesJoined(sprints, i + 1)
SomeSprint(sprints, state) ==
    \E i \in 1..Len(sprints) : get(sprints[i].val, StateKey) = Str(state)

\* C22: for a row with the field Sprint the result holds: for a null value,
\* sprint_ids and sprint_names null and the three flags false; for a list,
\* the non-null ids in order, the names joined by a comma, active_sprint iff
\* some sprint is active, multiple_sprints iff the list has more than one
\* element, slotted_for_future_sprints iff some sprint is future.
C22_SprintColumns ==
    (Translated /\ HasField(xlate.issue, Sprint)) =>
        LET v == FieldValue(xlate.issue, Sprint)
            out == xlate.out
        IN IF v = None
           THEN /\ Column(out, sprint_ids) = None
                /\ Column(out, sprint_names) = None
                /\ Column(out, active_sprint) = Bool(FALSE)
                /\ Column(out, multiple_sprints) = Bool(FALSE)
                /\ Column(out, slotted_for_future_sprints) = Bool(FALSE)
           ELSE /\ Column(out, sprint_ids) = List(NonNullIds(v.items, 1))
                /\ Column(out, sprint_names) = Str(NamesJoined(v.items, 1))
                /\ Column(out, active_sprint) = Bool(SomeSprint(v.items, active))
                /\ Column(out, multiple_sprints) = Bool(Len(v.items) > 1)
                /\ Column(out, slotted_for_future_sprints)
                       = Bool(SomeSprint(v.items, future))
\* C22 happens: two sprints, the first without an id and active, give the
\* ids [2], the names "A,B" and the flags true, true, false.
C22_Witness ==
    /\ Translated
    /\ HasField(xlate.issue, Sprint)
    /\ FieldValue(xlate.issue, Sprint)
           = List(<<Dict(<<Member(IdKey, None), Member(NameKey, Str(<<"A">>)),
                          Member(StateKey, Str(active))>>),
                    Dict(<<Member(IdKey, Scalar("int", <<"2">>)),
                          Member(NameKey, Str(<<"B">>)),
                          Member(StateKey, Str(closed))>>)>>)
    /\ Column(xlate.out, sprint_ids) = List(<<Scalar("int", <<"2">>)>>)
    /\ Column(xlate.out, sprint_names) = Str(<<"A", ",", "B">>)
    /\ Column(xlate.out, active_sprint) = Bool(TRUE)
    /\ Column(xlate.out, multiple_sprints) = Bool(TRUE)
    /\ Column(xlate.out, slotted_for_future_sprints) = Bool(FALSE)

\* C26: for a row with the field Flagged the result holds the key flagged:
\* for a list that is not empty, true iff the value of its first element is
\* "Impediment"; for a null or empty value, null.
C26_FlaggedColumn ==
    (Translated /\ HasField(xlate.issue, Flagged)) =>
        LET v == FieldValue(xlate.issue, Flagged)
        IN IF v # None /\ Len(v.items) > 0
           THEN Column(xlate.out, flagged)
                    = Bool(get(v.items[1].val, ValueKey) = Str(Impediment))
           ELSE Column(xlate.out, flagged) = None

\* C27: for a row with the field "Issue Type" the result holds issue_type:
\* the name member of the value, or null when the value is null or empty.
C27_IssueTypeColumn ==
    (Translated /\ HasField(xlate.issue, IssueType)) =>
        LET v == FieldValue(xlate.issue, IssueType)
        IN IF v # None /\ Len(v.items) > 0
           THEN Column(xlate.out, issue_type_column) = get(v, NameKey)
           ELSE Column(xlate.out, issue_type_column) = None

\* the segments of the chart field of a row, and the time of a status in them
SegmentsOf(value) == CHOOSE segs \in SegLists : Str(Render(segs, 1)) = value
Occurs(segs, id) == \E i \in 1..Len(segs) : segs[i].id = id
TimeOf(segs, id) == segs[CHOOSE i \in 1..Len(segs) : segs[i].id = id].time
\* the time_in_ columns of a row
TimeColumns(row) ==
    {row[i].key : i \in {j \in 1..Len(row) :
                            /\ Len(row[j].key) > Len(time_in_)
                            /\ SubSeq(row[j].key, 1, Len(time_in_)) = time_in_}}
\* C28: for a row with the field "[CHART] Time in Status" the result holds,
\* for every status of the mapping, time_in_<name> with the time of the
\* status in the segments of the record, or null when the status is not in
\* them or the field is null; a status in the segments that the mapping does
\* not have is held as time_in_status_<id>; and the result has no other
\* time_in_ column.
C28_TimeInStatusColumns ==
    (Translated /\ HasField(xlate.issue, TimeInStatus)) =>
        LET v == FieldValue(xlate.issue, TimeInStatus)
            mapping == xlate.mapping
            segs == IF v = None THEN <<>> ELSE SegmentsOf(v)
            known == {mapping[i].id : i \in 1..Len(mapping)}
            unknown == {segs[i].id : i \in 1..Len(segs)} \ known
        IN /\ \A id \in known :
                 Column(xlate.out, time_in_ \o NameOf(mapping, id))
                     = IF Occurs(segs, id) THEN Str(TimeOf(segs, id)) ELSE None
           /\ \A id \in unknown :
                 Column(xlate.out, time_in_status_ \o id) = Str(TimeOf(segs, id))
           /\ TimeColumns(xlate.out)
                  = {time_in_ \o NameOf(mapping, id) : id \in known}
                        \cup {time_in_status_ \o id : id \in unknown}
\* C28 happens: with the statuses 2 (Done) and 1 (Open) in the mapping, the
\* record with the segments of the statuses 3 and 1 holds time_in_Open,
\* time_in_Done = null and time_in_status_3.
C28_Witness ==
    /\ Translated
    /\ Len(xlate.mapping) = 2
    /\ HasField(xlate.issue, TimeInStatus)
    /\ FieldValue(xlate.issue, TimeInStatus)
           = Str(Render(<<Segment(<<"3">>, <<"9", "0">>),
                          Segment(<<"1">>, <<"7">>)>>, 1))
    /\ Column(xlate.out, time_in_ \o <<"O", "p", "e", "n">>) = Str(<<"7">>)
    /\ Column(xlate.out, time_in_ \o <<"D", "o", "n", "e">>) = None
    /\ Column(xlate.out, time_in_status_ \o <<"3">>) = Str(<<"9", "0">>)

(***************************************************************************)
(* Claims on process_issues, checked under ProcessSpec.                    *)
(***************************************************************************)
Processed == proc.state = "returned" /\ ~proc.none
\* the flattened fields of the record at place r
FlattenedOf(r) == flatten(<<>>, get(proc.issues[r], FieldsKey), <<>>)
\* the first dotted segment of a flattened key
FirstSegment(key) ==
    IF \E i \in 1..Len(key) : key[i] = "."
    THEN SubSeq(key, 1, (CHOOSE i \in 1..Len(key) :
                            key[i] = "." /\ \A j \in 1..(i - 1) : key[j] # ".") - 1)
    ELSE key
\* what a character of a field name becomes in the name of the column
NormalChar(c) ==
    IF c = " " THEN <<"_">>
    ELSE IF c \in Alphanumeric THEN <<LowerChar(c)>>
    ELSE IF c \in Whitespace THEN <<c>>
    ELSE <<>>
RECURSIVE NormalForm(_)
NormalForm(s) ==
    IF s = <<>> THEN <<>> ELSE NormalChar(Head(s)) \o NormalForm(Tail(s))
ColumnOf(key) == NormalForm(FirstSegment(key))
WellNamed(key) == FirstSegment(key) # <<>>
\* the last of the flattened keys that go to the column
LastOf(F, column, keys) ==
    CHOOSE j \in keys : /\ ColumnOf(F[j].key) = column
                        /\ \A k \in keys : ColumnOf(F[k].key) = column => k <= j

C24_EmptyNameKeptApart ==
    Processed =>
        \A r \in 1..Len(proc.issues) :
            LET F == FlattenedOf(r)
                good == {j \in 1..Len(F) : WellNamed(F[j].key)}
                bad == {j \in 1..Len(F) : ~WellNamed(F[j].key)}
            IN /\ \A j \in good :
                     Column(proc.rows[r], ColumnOf(F[j].key))
                         = F[LastOf(F, ColumnOf(F[j].key), good)].val
               /\ \A j \in bad :
                     \E i \in 1..Len(proc.rows[r]) :
                         /\ proc.rows[r][i].val = F[j].val
                         /\ proc.rows[r][i].key
                                \notin {ColumnOf(F[k].key) : k \in good}
                                           \cup {IdKey, KeyKey, api_url}

\* C25: the row of a record with a field named Sprint, Flagged, Issue Type
\* or [CHART] Time in Status holds the columns translate_special_fields makes
\* of the field.
C25_TranslationApplied ==
    Processed =>
        \A r \in 1..Len(proc.issues) :
            LET fields == get(proc.issues[r], FieldsKey).items
                row == proc.rows[r]
            IN /\ HasField(fields, Sprint) =>
                     \A column \in {sprint_ids, sprint_names, active_sprint,
                                    multiple_sprints, slotted_for_future_sprints} :
                         HasField(row, column)
               /\ HasField(fields, Flagged) => HasField(row, flagged)
               /\ HasField(fields, IssueType) => HasField(row, issue_type_column)
               /\ (HasField(fields, TimeInStatus)
                      /\ FieldValue(fields, TimeInStatus) # None) =>
                     TimeColumns(row) # {}

(***************************************************************************)
(* Further claims on the sink and on process_issues.                       *)
(***************************************************************************)
\* C33: after any sequence of upsert_data calls every sink table holds at
\* most one row per id, also when a batch has two rows with one id and when
\* the call creates the table from the batch.
C33_OneRowPerId == \A name \in DOMAIN tables : NoIdTwice(tables[name])

\* C34: process_issues makes one row per record, in order, and the columns
\* id, key and api_url of the row hold the id, the key and the url of the
\* record, whatever the names of its fields.
C34_OwnIdKeyUrl ==
    Processed =>
        /\ Len(proc.rows) = Len(proc.issues)
        /\ \A r \in 1..Len(proc.issues) :
              /\ Column(proc.rows[r], IdKey) = get(proc.issues[r], IdKey)
              /\ Column(proc.rows[r], KeyKey) = get(proc.issues[r], KeyKey)
              /\ Column(proc.rows[r], api_url) = get(proc.issues[r], SelfKey)


(***************************************************************************)
(* Further claims on the sync loop. The watermark a pass advances a pair   *)
(* to is the value it calls update_sync_metadata with.                     *)
(***************************************************************************)
\* the rows of the sink table of a pair
SinkRowsOf(pr) ==
    IF table_name(pr[1], pr[2]) \in DOMAIN tables
    THEN {tables[table_name(pr[1], pr[2])][i] :
             i \in 1..Len(tables[table_name(pr[1], pr[2])])}
    ELSE {}
\* the records of a pair the query of a pass selects, for the values
\* get_sync_metadata may have answered
Selected(pr, answers) ==
    {srv[pr][i] : i \in {j \in 1..Len(srv[pr]) :
                            \E since \in answers : strftime(srv[pr][j].updated) >= since}}

=============================================================================
